---- MODULE Spec2Model ----
(***************************************************************************)
(* A model of pypibt: the EPIBT planner (pibt.py), its lazy BFS distance   *)
(* oracle (dist_table.py), the grid helpers and the validator              *)
(* (mapf_utils.py).                                                        *)
(*                                                                         *)
(* Cells are pairs <<y, x>>.  A grid is a record [H, W, free] whose free   *)
(* is the set of in-bounds cells holding True.  Actions are the strings    *)
(* "F", "R", "C", "W"; an operation is a sequence of actions.              *)
(***************************************************************************)
EXTENDS Integers, Sequences, FiniteSets, TLC

\* ------------------------------------------------------------------ bounds

\* Largest operation horizon enumerated by the catalog specification.
MaxOpLen == 4

\* ------------------------------------------------------------ small helpers

Min(a, b) == IF a < b THEN a ELSE b

Abs(a) == IF a < 0 THEN -a ELSE a

RECURSIVE Pow4(_)
Pow4(n) == IF n = 0 THEN 1 ELSE 4 * Pow4(n - 1)

Range(s) == {s[i] : i \in 1..Len(s)}

\* ------------------------------------------------------- mapf_utils: grids

\* Every in-bounds cell of an H x W array.
Cells(h, w) == {<<y, x>> : y \in 0..(h - 1), x \in 0..(w - 1)}

\* get_grid: an H x W grid with the given obstacle cells set to False.
get_grid(h, w, obstacles) ==
    [H |-> h, W |-> w, free |-> Cells(h, w) \ obstacles]

\* grid.size
GridSize(g) == g.H * g.W

is_valid_coord(g, c) ==
    ~(c[1] < 0 \/ c[1] >= g.H \/ c[2] < 0 \/ c[2] >= g.W \/ c \notin g.free)

\* get_neighbors: left, right, up, down, in that order, each kept when
\* in bounds and traversable; empty for an invalid cell.
get_neighbors(g, c) ==
    IF ~is_valid_coord(g, c) THEN <<>>
    ELSE LET y == c[1]
             x == c[2]
             l == IF x > 0 /\ <<y, x - 1>> \in g.free THEN <<(<<y, x - 1>>)>> ELSE <<>>
             r == IF x < g.W - 1 /\ <<y, x + 1>> \in g.free THEN <<(<<y, x + 1>>)>> ELSE <<>>
             u == IF y > 0 /\ <<y - 1, x>> \in g.free THEN <<(<<y - 1, x>>)>> ELSE <<>>
             d == IF y < g.H - 1 /\ <<y + 1, x>> \in g.free THEN <<(<<y + 1, x>>)>> ELSE <<>>
         IN  l \o r \o u \o d

\* DIRECTION_VECTORS, indexed by orientation N=0, E=1, S=2, W=3 (as dy, dx).
DIRECTION_VECTORS(o) ==
    CASE o = 0 -> <<-1, 0>>
      [] o = 1 -> <<0, 1>>
      [] o = 2 -> <<1, 0>>
      [] o = 3 -> <<0, -1>>

\* ------------------------------------------------- dist_table: lazy BFS

\* np.iinfo(np.int32).max
UNREACHED == 2147483647

\* A construction that forgets the distance 0 of the goal.
MutDistTableInitUnseeded(g, goal) ==
    [goal  |-> goal,
     queue |-> <<goal>>,
     table |-> [c \in Cells(g.H, g.W) |-> UNREACHED]]

\* DistTable.__post_init__: queue seeded with the goal, table all
\* UNREACHED but 0 at the goal (the goal is an in-bounds cell).
DistTableInit(g, goal) ==
    [goal  |-> goal,
     queue |-> <<goal>>,
     table |-> [c \in Cells(g.H, g.W) |-> IF c = goal THEN 0 ELSE UNREACHED]]

\* The relaxation of the neighbours vs[i..] of a popped node at distance d.
RECURSIVE Relax(_, _, _, _)
Relax(dt, vs, i, d) ==
    IF i > Len(vs) THEN dt
    ELSE IF dt.table[vs[i]] = UNREACHED
         THEN Relax([dt EXCEPT !.table[vs[i]] = d + 1,
                               !.queue = Append(@, vs[i])], vs, i + 1, d)
         ELSE Relax(dt, vs, i + 1, d)

\* A search loop that returns on popping the target before relaxing its
\* neighbours.
RECURSIVE MutBfsLoopEarlyReturn(_, _, _)
MutBfsLoopEarlyReturn(g, dt, target) ==
    IF dt.queue = <<>> THEN [val |-> UNREACHED, dt |-> dt]
    ELSE LET u == Head(dt.queue)
             d == dt.table[u]
             popped == [dt EXCEPT !.queue = Tail(@)]
         IN  IF u = target THEN [val |-> d, dt |-> popped]
             ELSE MutBfsLoopEarlyReturn(g, Relax(popped, get_neighbors(g, u), 1, d), target)

\* The while loop of DistTable.get: pop, relax, return when the popped
\* node is the target; UNREACHED when the queue runs empty.
RECURSIVE BfsLoop(_, _, _)
BfsLoop(g, dt, target) ==
    IF dt.queue = <<>> THEN [val |-> UNREACHED, dt |-> dt]
    ELSE LET u == Head(dt.queue)
             d == dt.table[u]
             popped == [dt EXCEPT !.queue = Tail(@)]
             relaxed == Relax(popped, get_neighbors(g, u), 1, d)
         IN  IF u = target THEN [val |-> d, dt |-> relaxed]
             ELSE BfsLoop(g, relaxed, target)

\* DistTable.get: the returned distance and the oracle after the call.
DistGet(g, dt, target) ==
    IF ~is_valid_coord(g, target) THEN [val |-> UNREACHED, dt |-> dt]
    ELSE IF dt.table[target] # UNREACHED THEN [val |-> dt.table[target], dt |-> dt]
    ELSE BfsLoop(g, dt, target)

\* ------------------------------------------------- pibt: operation catalog

Alphabet == <<"F", "R", "C", "W">>

\* The i-th tuple (from 0) of itertools.product("FRCW", repeat=L): the last
\* position varies fastest.
ProductAt(L, i) ==
    [j \in 1..L |-> Alphabet[((i \div Pow4(L - j)) % 4) + 1]]

\* The inner loop of _generate_operations from position i on, with the
\* running rot_count and net_rot: TRUE when the loop sets bad.
RECURSIVE ScanBad(_, _, _, _)
ScanBad(op, i, rot_count, net_rot) ==
    IF i > Len(op) THEN FALSE
    ELSE LET a == op[i] IN
         IF a \in {"R", "C"}
         THEN LET rc == rot_count + 1
                  nr == net_rot + (IF a = "R" THEN 1 ELSE -1)
                  rule1 == i > 1 /\ ((op[i - 1] = "R" /\ a = "C")
                                      \/ (op[i - 1] = "C" /\ a = "R"))
                  abs_net == Abs(nr)
                  need == Min(abs_net % 4, 4 - (abs_net % 4))
                  rule2 == rc > need
                           /\ ((abs_net % 4 = 0 /\ rc > 0)
                               \/ (abs_net % 4 # 0 /\ rc > need))
              IN  IF rule1 \/ rule2 THEN TRUE ELSE ScanBad(op, i + 1, rc, nr)
         ELSE ScanBad(op, i + 1, 0, 0)

\* A loop body without rule 3: operations ending in a rotation are kept.
MutKeepOpTrailingRotation(op) == ~ScanBad(op, 1, 0, 0)

\* A pruning that also rejects two rotations in a row.
MutKeepOpNoDoubleTurn(op) ==
    /\ op[Len(op)] \notin {"R", "C"}
    /\ ~ScanBad(op, 1, 0, 0)
    /\ \A i \in 1..(Len(op) - 1) : ~(op[i] \in {"R", "C"} /\ op[i + 1] \in {"R", "C"})

\* One pass of the outer loop body: is op appended to result?
KeepOp(op) ==
    /\ op[Len(op)] \notin {"R", "C"}
    /\ ~ScanBad(op, 1, 0, 0)

\* _generate_operations(op_len): the kept tuples in product order.
_generate_operations(op_len) ==
    SelectSeq([i \in 1..Pow4(op_len) |-> ProductAt(op_len, i - 1)], KeepOp)

\* ------------------------------------------------ pibt: trajectories

\* The loop of _compute_cell_path from action i on; cells is the path so
\* far as a function over 0..i-1.
RECURSIVE PathLoop(_, _, _, _, _, _)
PathLoop(g, cur, ori, op, i, cells) ==
    IF i > Len(op) THEN [ok |-> TRUE, path |-> cells, ori |-> ori]
    ELSE LET a == op[i] IN
         IF a = "F"
         THEN LET d == DIRECTION_VECTORS(ori)
                  nxt == <<cur[1] + d[1], cur[2] + d[2]>>
              IN  IF ~is_valid_coord(g, nxt)
                  THEN [ok |-> FALSE, path |-> <<>>, ori |-> ori]
                  ELSE PathLoop(g, nxt, ori, op, i + 1,
                                [t \in 0..i |-> IF t = i THEN nxt ELSE cells[t]])
         ELSE LET o2 == IF a = "R" THEN (ori + 1) % 4
                        ELSE IF a = "C" THEN (ori - 1) % 4
                        ELSE ori
              IN  PathLoop(g, cur, o2, op, i + 1,
                           [t \in 0..i |-> IF t = i THEN cur ELSE cells[t]])

\* _compute_cell_path: ok is FALSE for the None return; otherwise path is
\* the cell-path (a function over 0..len(op)) and ori the final orientation.
_compute_cell_path(g, coord, orientation, operation) ==
    PathLoop(g, coord, orientation, operation, 1, [t \in {0} |-> coord])

\* tuple([coord] * (op_len + 1))
StayPath(coord, op_len) == [t \in 0..op_len |-> coord]

\* ("W",) * op_len
WaitOp(op_len) == [j \in 1..op_len |-> "W"]

\* ------------------------------------------------ pibt: reservation table

\* np.full((op_len + 1, *grid.shape), NIL)
EmptyReserved(g, op_len, nil) ==
    [t \in 0..op_len |-> [c \in Cells(g.H, g.W) |-> nil]]

\* A reservation that stops one subtime short of the end of the path.
MutReservePathShort(reserved, agent_id, path) ==
    [t \in DOMAIN reserved |->
        IF t \in DOMAIN path /\ t + 1 \in DOMAIN path
        THEN [reserved[t] EXCEPT ![path[t]] = agent_id]
        ELSE reserved[t]]

_reserve_path(reserved, agent_id, path) ==
    [t \in DOMAIN reserved |->
        IF t \in DOMAIN path
        THEN [reserved[t] EXCEPT ![path[t]] = agent_id]
        ELSE reserved[t]]

_unreserve_path(reserved, nil, agent_id, path) ==
    [t \in DOMAIN reserved |->
        IF t \in DOMAIN path /\ reserved[t][path[t]] = agent_id
        THEN [reserved[t] EXCEPT ![path[t]] = nil]
        ELSE reserved[t]]

\* A conflict search that looks at vertices only.
MutGetConflictsVertexOnly(reserved, nil, agent_id, path) ==
    {reserved[t][path[t]] : t \in DOMAIN path} \ {nil, agent_id}

\* _get_conflicts: the agents whose reservations meet the path in a vertex
\* or cross it on an edge.
_get_conflicts(reserved, nil, agent_id, path) ==
    LET vertex == {reserved[t][path[t]] : t \in DOMAIN path} \ {nil, agent_id}
        edge == {reserved[t - 1][path[t]] :
                    t \in {u \in DOMAIN path :
                             /\ u > 0
                             /\ path[u] # path[u - 1]
                             /\ reserved[u - 1][path[u]] # nil
                             /\ reserved[u - 1][path[u]] # agent_id
                             /\ reserved[u][path[u - 1]] = reserved[u - 1][path[u]]}}
    IN  vertex \cup edge

\* ------------------------------------------------ pibt: the seeded generator

\* The planner's generator (np.random.default_rng(seed)) as a deterministic
\* stream: the state after one draw, and a draw below n.
RngNext(r) == (r * 75 + 74) % 65537

RngBelow(r, n) == RngNext(r) % n

\* rng.shuffle: Fisher-Yates from the last position down, one draw per
\* position; the shuffled sequence and the generator after it.
RECURSIVE ShuffleLoop(_, _, _)
ShuffleLoop(xs, r, i) ==
    IF i < 2 THEN [xs |-> xs, rng |-> r]
    ELSE LET j == 1 + RngBelow(r, i)
             swapped == [xs EXCEPT ![i] = xs[j], ![j] = xs[i]]
         IN  ShuffleLoop(swapped, RngNext(r), i - 1)

Shuffle(xs, r) == ShuffleLoop(xs, r, Len(xs))

\* ------------------------------------------------ pibt: candidate ranking

\* beta: the per-action penalties F=0, R=C=1, W=2 summed over the operation.
RECURSIVE Beta(_, _)
Beta(op, i) ==
    IF i > Len(op) THEN 0
    ELSE (IF op[i] = "W" THEN 2 ELSE IF op[i] \in {"R", "C"} THEN 1 ELSE 0)
         + Beta(op, i + 1)

\* The first loop without the skip of lines 244-245: an operation whose
\* terminal the oracle has not reached stays a candidate, weighted by its
\* beta alone.
RECURSIVE MutRawLoopKeepsUnreached(_, _, _, _, _, _, _)
MutRawLoopKeepsUnreached(g, ops, dt, coord, orientation, i, raw) ==
    IF i > Len(ops) THEN [raw |-> raw, dt |-> dt]
    ELSE LET Weigh(result, q) ==
                 MutRawLoopKeepsUnreached(g, ops, q.dt, coord, orientation, i + 1,
                              Append(raw, [weight |-> (IF q.val = UNREACHED THEN 0
                                                       ELSE q.val * (GridSize(g) * 10))
                                                        + Beta(ops[i], 1),
                                           op |-> ops[i],
                                           path |-> result.path,
                                           ori |-> result.ori]))
             Try(result) ==
                 IF ~result.ok
                 THEN MutRawLoopKeepsUnreached(g, ops, dt, coord, orientation, i + 1, raw)
                 ELSE Weigh(result, DistGet(g, dt, result.path[Len(ops[i])]))
         IN  Try(_compute_cell_path(g, coord, orientation, ops[i]))

\* The first loop with the weight of line 248 reduced to beta: the distance
\* of the terminal to the goal no longer ranks the candidates.
RECURSIVE MutRawLoopBetaOnly(_, _, _, _, _, _, _)
MutRawLoopBetaOnly(g, ops, dt, coord, orientation, i, raw) ==
    IF i > Len(ops) THEN [raw |-> raw, dt |-> dt]
    ELSE LET Weigh(result, q) ==
                 IF q.val = UNREACHED
                 THEN MutRawLoopBetaOnly(g, ops, q.dt, coord, orientation, i + 1, raw)
                 ELSE MutRawLoopBetaOnly(g, ops, q.dt, coord, orientation, i + 1,
                              Append(raw, [weight |-> Beta(ops[i], 1),
                                           op |-> ops[i],
                                           path |-> result.path,
                                           ori |-> result.ori]))
             Try(result) ==
                 IF ~result.ok
                 THEN MutRawLoopBetaOnly(g, ops, dt, coord, orientation, i + 1, raw)
                 ELSE Weigh(result, DistGet(g, dt, result.path[Len(ops[i])]))
         IN  Try(_compute_cell_path(g, coord, orientation, ops[i]))

\* The first loop of _get_sorted_candidates over all_operations[i..]: the
\* feasible operations with a reached terminal, weighted, in catalog order,
\* and the agent's oracle after the queries.
RECURSIVE RawLoop(_, _, _, _, _, _, _)
RawLoop(g, ops, dt, coord, orientation, i, raw) ==
    IF i > Len(ops) THEN [raw |-> raw, dt |-> dt]
    ELSE LET Weigh(result, q) ==
                 IF q.val = UNREACHED
                 THEN RawLoop(g, ops, q.dt, coord, orientation, i + 1, raw)
                 ELSE RawLoop(g, ops, q.dt, coord, orientation, i + 1,
                              Append(raw, [weight |-> q.val * (GridSize(g) * 10)
                                                        + Beta(ops[i], 1),
                                           op |-> ops[i],
                                           path |-> result.path,
                                           ori |-> result.ori]))
             Try(result) ==
                 IF ~result.ok THEN RawLoop(g, ops, dt, coord, orientation, i + 1, raw)
                 ELSE Weigh(result, DistGet(g, dt, result.path[Len(ops[i])]))
         IN  Try(_compute_cell_path(g, coord, orientation, ops[i]))

\* best_by_path as the list of its items in insertion order: an entry keeps
\* the place of the first operation with its cell-path and is replaced by a
\* later one only when that one is strictly lighter.
RECURSIVE DedupLoop(_, _, _)
DedupLoop(raw, i, best) ==
    IF i > Len(raw) THEN best
    ELSE LET same == {j \in 1..Len(best) : best[j].path = raw[i].path} IN
         IF same = {} THEN DedupLoop(raw, i + 1, Append(best, raw[i]))
         ELSE LET j == CHOOSE x \in same : TRUE IN
              IF raw[i].weight < best[j].weight
              THEN DedupLoop(raw, i + 1, [best EXCEPT ![j] = raw[i]])
              ELSE DedupLoop(raw, i + 1, best)

\* The ranking without the sort of line 265: the shuffled list as it is.
MutSortLoopKeepsOrder(xs, i, sorted) == xs

\* list.sort(key=weight): stable, ascending.  Insert xs[i] behind every
\* element that is not heavier.
RECURSIVE SortLoop(_, _, _)
SortLoop(xs, i, sorted) ==
    IF i > Len(xs) THEN sorted
    ELSE LET n == Cardinality({j \in 1..Len(sorted) : sorted[j].weight <= xs[i].weight})
         IN  SortLoop(xs, i + 1,
                      SubSeq(sorted, 1, n) \o <<xs[i]>> \o SubSeq(sorted, n + 1, Len(sorted)))

\* _get_sorted_candidates: the ranked (op, path, ori) list, the oracle and
\* the generator after the call.
_get_sorted_candidates(g, ops, dt, rng, coord, orientation) ==
    LET Rank(r, sh) == [cands |-> SortLoop(sh.xs, 1, <<>>), dt |-> r.dt, rng |-> sh.rng]
        Dedup(r) == Rank(r, Shuffle(DedupLoop(r.raw, 1, <<>>), rng))
    IN  Dedup(RawLoop(g, ops, dt, coord, orientation, 1, <<>>))

\* ------------------------------------------------ pibt: recursive selection

(***************************************************************************)
(* During one call of step the planner object is split in two records.     *)
(* X holds what the call only reads: grid, N, op_len, max_revisits,        *)
(* all_operations, Q_from (_Q_from), priorities (_priorities),             *)
(* orientations and inherited_ops.  S holds what selection writes:         *)
(* reserved, agent_ops, agent_paths, visit_count, hit, rng, dist_tables,   *)
(* and calls, the number of invocations of _epibt_select so far.           *)
(*                                                                         *)
(* Three more fields of S record the course of the selection: stack, the   *)
(* agents whose invocation of _epibt_select has not returned, outermost    *)
(* first; log, one entry per invocation in the order of their returns; and *)
(* pushes, one entry per recursive call of line 325 in the order made.     *)
(***************************************************************************)

\* What an entry of the log keeps of the planner's fields.
Snap(S) ==
    [reserved |-> S.reserved,
     agent_ops |-> S.agent_ops,
     agent_paths |-> [i \in DOMAIN S.agent_paths |-> S.agent_paths[i]],
     visit_count |-> [i \in DOMAIN S.visit_count |-> S.visit_count[i]],
     hit |-> [i \in DOMAIN S.hit |-> S.hit[i]]]

\* The fallback at the end of _epibt_select: adopt the inherited operation
\* with its cell-path, or the stay-in-place path when it is infeasible.
SelectFallback(X, S, k) ==
    LET Adopt(inh_result) ==
            [S EXCEPT !.agent_ops[k] = X.inherited_ops[k],
                      !.agent_paths[k] = IF inh_result.ok THEN inh_result.path
                                         ELSE StayPath(X.Q_from[k], X.op_len),
                      !.hit[k] = 0]
    IN  Adopt(_compute_cell_path(X.grid, X.Q_from[k], X.orientations[k],
                                 X.inherited_ops[k]))

\* A push test without the cap on revisits.
MutPushRefusedUncapped(X, S, l, p) ==
    \/ S.hit[l] = 1
    \/ X.priorities[l] >= p

\* A push test whose cap on revisits is one too high.
MutPushRefusedLateCap(X, S, l, p) ==
    \/ S.hit[l] = 1
    \/ S.visit_count[l] > X.max_revisits
    \/ X.priorities[l] >= p

\* A push test that does not look at the priorities.
MutPushRefusedAnyPriority(X, S, l, p) ==
    \/ S.hit[l] = 1
    \/ S.visit_count[l] >= X.max_revisits

\* A push test that does not look at hit.
MutPushRefusedNoHit(X, S, l, p) ==
    \/ S.visit_count[l] >= X.max_revisits
    \/ X.priorities[l] >= p

\* Line 307-311: the single conflicting agent l is not asked to reselect.
PushRefused(X, S, l, p) ==
    \/ S.hit[l] = 1
    \/ S.visit_count[l] >= X.max_revisits
    \/ X.priorities[l] >= p

RECURSIVE _epibt_select(_, _, _, _)
RECURSIVE SelectLoop(_, _, _, _, _, _)

\* The for loop of _epibt_select over candidates[i..].
SelectLoop(X, S, k, p, candidates, i) ==
    IF i > Len(candidates) THEN [ok |-> FALSE, S |-> SelectFallback(X, S, k)]
    ELSE
    LET op == candidates[i].op
        cell_path == candidates[i].path
        conflicts == _get_conflicts(S.reserved, X.N, k, cell_path)
    IN
    IF conflicts = {}
    THEN [ok |-> TRUE,
          S  |-> [S EXCEPT !.agent_ops[k] = op,
                           !.agent_paths[k] = cell_path,
                           !.reserved = _reserve_path(S.reserved, k, cell_path),
                           !.hit[k] = 0]]
    ELSE IF Cardinality(conflicts) > 1
    THEN SelectLoop(X, S, k, p, candidates, i + 1)
    ELSE
    LET l == CHOOSE x \in conflicts : TRUE IN
    IF PushRefused(X, S, l, p)
    THEN SelectLoop(X, S, k, p, candidates, i + 1)
    ELSE
    LET old_op_l == S.agent_ops[l]
        old_path_l == S.agent_paths[l]
        pushed == [S EXCEPT !.reserved = _reserve_path(
                                _unreserve_path(S.reserved, X.N, l, old_path_l),
                                k, cell_path),
                            !.agent_ops[k] = op,
                            !.agent_paths[k] = cell_path,
                            !.pushes = Append(@, [k |-> k, l |-> l, p |-> p,
                                                  conflicts |-> conflicts,
                                                  seq |-> S.calls + 1])]
        Pushed(r) ==
            IF r.ok
            THEN [ok |-> TRUE, S |-> [r.S EXCEPT !.hit[k] = 0]]
            ELSE SelectLoop(X,
                            [r.S EXCEPT !.reserved = _reserve_path(
                                            _unreserve_path(r.S.reserved, X.N, k,
                                                            cell_path),
                                            l, old_path_l),
                                        !.agent_ops[l] = old_op_l,
                                        !.agent_paths[l] = old_path_l],
                            k, p, candidates, i + 1)
    IN  Pushed(_epibt_select(X, pushed, l, p))

\* _epibt_select(k, p): ok is the returned flag, S the state after the call.
\* The entry logged on return has the agent, the priority handed down, the
\* rank of the invocation among those of the step, the invocations active
\* around it, the flag, and the fields before the call and at its return.
_epibt_select(X, S, k, p) ==
    LET Leave(r) ==
            [ok |-> r.ok,
             S  |-> [r.S EXCEPT !.stack = S.stack,
                                !.log = Append(@, [k |-> k, p |-> p, seq |-> S.calls + 1,
                                                   stack |-> S.stack, ok |-> r.ok,
                                                   before |-> Snap(S),
                                                   after |-> Snap(r.S)])]]
        Enter(c) ==
            Leave(SelectLoop(X,
                             [S EXCEPT !.dist_tables[k] = c.dt,
                                       !.rng = c.rng,
                                       !.visit_count[k] = @ + 1,
                                       !.hit[k] = 1,
                                       !.calls = @ + 1,
                                       !.stack = Append(@, k)],
                             k, p, c.cands, 1))
    IN  Enter(_get_sorted_candidates(X.grid, X.all_operations, S.dist_tables[k],
                                     S.rng, X.Q_from[k], X.orientations[k]))

\* ------------------------------------------------ pibt: step

\* sorted(range(N), key=priorities, reverse=True): descending and stable,
\* so equal priorities stay in increasing agent order.
RECURSIVE OrderLoop(_, _, _, _)
OrderLoop(N, priorities, i, sorted) ==
    IF i >= N THEN sorted
    ELSE LET n == Cardinality({j \in 1..Len(sorted) :
                                  priorities[sorted[j]] >= priorities[i]})
         IN  OrderLoop(N, priorities, i + 1,
                       SubSeq(sorted, 1, n) \o <<i>> \o SubSeq(sorted, n + 1, Len(sorted)))

\* The agents in index order, whatever their priorities.
MutAgentOrderByIndex(N, priorities) == [j \in 1..N |-> j - 1]

AgentOrder(N, priorities) == OrderLoop(N, priorities, 0, <<>>)

\* Lines 376-388: the table cleared, then every agent's inherited path (or
\* the stay-in-place path with an all-wait operation) reserved in agent order.
RECURSIVE SetupLoop(_, _, _)
SetupLoop(X, S, i) ==
    IF i >= X.N THEN S
    ELSE LET Reserve(result, path) ==
                 SetupLoop(X,
                           [S EXCEPT !.agent_paths[i] = path,
                                     !.agent_ops[i] = IF result.ok THEN @
                                                      ELSE WaitOp(X.op_len),
                                     !.reserved = _reserve_path(S.reserved, i, path)],
                           i + 1)
             Inherit(result) ==
                 Reserve(result, IF result.ok THEN result.path
                                 ELSE StayPath(X.Q_from[i], X.op_len))
         IN  Inherit(_compute_cell_path(X.grid, X.Q_from[i], X.orientations[i],
                                        X.inherited_ops[i]))

\* Lines 393-403: the main loop over agent_order[idx..].
RECURSIVE MainLoop(_, _, _, _)
MainLoop(X, S, agent_order, idx) ==
    IF idx > Len(agent_order) THEN S
    ELSE LET k == agent_order[idx] IN
         IF S.visit_count[k] # 0 THEN MainLoop(X, S, agent_order, idx + 1)
         ELSE LET freed == [S EXCEPT !.reserved =
                                _unreserve_path(S.reserved, X.N, k, S.agent_paths[k])]
                  Selected(r) ==
                      IF r.ok THEN MainLoop(X, r.S, agent_order, idx + 1)
                      ELSE MainLoop(X,
                                    [r.S EXCEPT !.reserved =
                                        _reserve_path(r.S.reserved, k,
                                                      r.S.agent_paths[k])],
                                    agent_order, idx + 1)
              IN  Selected(_epibt_select(X, freed, k, X.priorities[k]))

\* An emission that moves forward without the validity check.
MutEmitUnchecked(g, op, pos, ori) ==
    LET first_action == op[1] IN
    IF first_action = "F"
    THEN LET d == DIRECTION_VECTORS(ori)
         IN  [pos |-> <<pos[1] + d[1], pos[2] + d[2]>>, ori |-> ori]
    ELSE IF first_action = "R" THEN [pos |-> pos, ori |-> (ori + 1) % 4]
    ELSE IF first_action = "C" THEN [pos |-> pos, ori |-> (ori - 1) % 4]
    ELSE [pos |-> pos, ori |-> ori]

\* Lines 408-426: the first action of op executed from (pos, ori).
Emit(g, op, pos, ori) ==
    LET first_action == op[1] IN
    IF first_action = "F"
    THEN LET d == DIRECTION_VECTORS(ori)
             new_pos == <<pos[1] + d[1], pos[2] + d[2]>>
         IN  [pos |-> IF is_valid_coord(g, new_pos) THEN new_pos ELSE pos, ori |-> ori]
    ELSE IF first_action = "R" THEN [pos |-> pos, ori |-> (ori + 1) % 4]
    ELSE IF first_action = "C" THEN [pos |-> pos, ori |-> (ori - 1) % 4]
    ELSE [pos |-> pos, ori |-> ori]

\* Line 429: op[1:] + ("W",)
NextInherited(op) == [j \in 1..Len(op) |-> IF j < Len(op) THEN op[j + 1] ELSE "W"]

\* PIBT.step on the planner object P (a record of its fields): the object
\* after the call, the returned Q_to, the number of invocations of
\* _epibt_select the call made, and the record of them.
step(P, Q_from, priorities) ==
    LET X == [grid |-> P.grid, N |-> P.N, op_len |-> P.op_len,
              max_revisits |-> P.max_revisits, all_operations |-> P.all_operations,
              Q_from |-> Q_from, priorities |-> priorities,
              orientations |-> P.orientations, inherited_ops |-> P.inherited_ops]
        S0 == [reserved |-> EmptyReserved(P.grid, P.op_len, P.N),
               agent_ops |-> P.inherited_ops,
               agent_paths |-> [i \in 0..(P.N - 1) |-> <<>>],
               visit_count |-> [i \in 0..(P.N - 1) |-> 0],
               hit |-> [i \in 0..(P.N - 1) |-> 0],
               rng |-> P.rng,
               dist_tables |-> P.dist_tables,
               calls |-> 0,
               stack |-> <<>>,
               log |-> <<>>,
               pushes |-> <<>>]
        Execute(S2, out) ==
            [Q_to |-> [i \in 0..(P.N - 1) |-> out[i].pos],
             P |-> [P EXCEPT !.orientations = [i \in 0..(P.N - 1) |-> out[i].ori],
                             !.inherited_ops = [i \in 0..(P.N - 1) |->
                                                    NextInherited(S2.agent_ops[i])],
                             !.reserved = S2.reserved,
                             !.rng = S2.rng,
                             !.dist_tables = S2.dist_tables,
                             !.visit_count = S2.visit_count,
                             !.hit = S2.hit,
                             !.agent_ops = S2.agent_ops,
                             !.agent_paths = S2.agent_paths,
                             !.Q_from = Q_from,
                             !.priorities = priorities],
             calls |-> S2.calls,
             sel |-> [log |-> S2.log, pushes |-> S2.pushes, priorities |-> priorities]]
        Planned(S2) ==
            Execute(S2, [i \in 0..(P.N - 1) |->
                            Emit(P.grid, S2.agent_ops[i], Q_from[i], P.orientations[i])])
    IN  Planned(MainLoop(X, SetupLoop(X, S0, 0), AgentOrder(P.N, priorities), 1))

\* ------------------------------------------------ pibt: construction

\* Lines 155-157: one draw below 4 per agent, in agent order.
RECURSIVE OrientLoop(_, _, _, _)
OrientLoop(N, r, i, acc) ==
    IF i >= N THEN [orientations |-> acc, rng |-> r]
    ELSE OrientLoop(N, RngNext(r), i + 1,
                    [j \in 0..i |-> IF j = i THEN RngBelow(r, 4) ELSE acc[j]])

\* PIBT.__init__: the planner object as a record of its fields.
PIBTInit(g, starts, goals, seed, op_len, max_revisits) ==
    LET N == Cardinality(DOMAIN starts)
        o == OrientLoop(N, seed, 0, <<>>)
    IN  [grid |-> g,
         starts |-> starts,
         goals |-> goals,
         N |-> N,
         op_len |-> op_len,
         max_revisits |-> max_revisits,
         dist_tables |-> [i \in DOMAIN goals |-> DistTableInit(g, goals[i])],
         rng |-> o.rng,
         orientations |-> o.orientations,
         inherited_ops |-> [i \in 0..(N - 1) |-> WaitOp(op_len)],
         reserved |-> EmptyReserved(g, op_len, N),
         all_operations |-> _generate_operations(op_len),
         visit_count |-> <<>>,
         hit |-> <<>>,
         agent_ops |-> <<>>,
         agent_paths |-> <<>>,
         Q_from |-> <<>>,
         priorities |-> <<>>]

\* PIBT.update_goal
update_goal(P, agent_id, new_goal) ==
    [P EXCEPT !.goals[agent_id] = new_goal,
              !.dist_tables[agent_id] = DistTableInit(P.grid, new_goal)]

\* ------------------------------------------------ mapf_utils: validator

\* The body of the loops of validate_mapf_solution for one timestep: pre is
\* solution[max(t - 1, 0)] and now is solution[t].
ValidStep(g, N, pre, now) ==
    \A i \in 0..(N - 1) :
        /\ now[i] \in {pre[i]} \cup Range(get_neighbors(g, pre[i]))
        /\ \A j \in (i + 1)..(N - 1) :
              /\ ~(now[i] = now[j])
              /\ ~(now[i] = pre[j] /\ pre[i] = now[j])

\* validate_mapf_solution of a list of joint configurations, lines 71-101:
\* "ok", or the message of the first assertion that fails.  zip stops at
\* the shorter of its two lists.
MutValidateNoGoalCheck(g, starts, goals, solution) ==
    LET N == Cardinality(DOMAIN starts)
        Both(a, b) == DOMAIN a \cap DOMAIN b
    IN  IF \E i \in Both(starts, solution[1]) : starts[i] # solution[1][i]
        THEN "invalid solution, check starts"
        ELSE IF \E t \in 1..Len(solution) :
                    ~ValidStep(g, N, solution[IF t = 1 THEN 1 ELSE t - 1], solution[t])
        THEN "invalid solution, check connectivity or collision"
        ELSE "ok"

validate_mapf_solution(g, starts, goals, solution) ==
    LET N == Cardinality(DOMAIN starts)
        Both(a, b) == DOMAIN a \cap DOMAIN b
    IN  IF \E i \in Both(starts, solution[1]) : starts[i] # solution[1][i]
        THEN "invalid solution, check starts"
        ELSE IF \E i \in Both(goals, solution[Len(solution)]) :
                    goals[i] # solution[Len(solution)][i]
        THEN "invalid solution, check goals"
        ELSE IF \E t \in 1..Len(solution) :
                    ~ValidStep(g, N, solution[IF t = 1 THEN 1 ELSE t - 1], solution[t])
        THEN "invalid solution, check connectivity or collision"
        ELSE "ok"

\* is_valid_mapf_solution, lines 110-115: True when validate_mapf_solution
\* returns, False when it raises.  It raises AssertionError where an
\* assertion fails, and IndexError where the list of configurations is
\* empty (solution[0], line 73) or one of them is shorter than starts
\* (solution[t][i], lines 86-97); both are caught at line 113.
is_valid_mapf_solution(g, starts, goals, solution) ==
    IF Len(solution) = 0 THEN FALSE
    ELSE IF \E t \in 1..Len(solution) : ~(DOMAIN starts \subseteq DOMAIN solution[t])
    THEN FALSE
    ELSE validate_mapf_solution(g, starts, goals, solution) = "ok"

\* ------------------------------------------------ pibt: run

\* Lines 436-439 of run: the initial priorities d / grid.size (0.0 for an
\* unreached start), one oracle query per agent.  A priority is held as its
\* numerator over grid.size.
RECURSIVE RunPrioLoop(_, _, _)
RunPrioLoop(P, i, acc) ==
    IF i >= P.N THEN [P |-> P, priorities |-> acc]
    ELSE LET Asked(d) ==
                 RunPrioLoop([P EXCEPT !.dist_tables[i] = d.dt], i + 1,
                             [j \in 0..i |-> IF j = i
                                             THEN (IF d.val # UNREACHED THEN d.val ELSE 0)
                                             ELSE acc[j]])
         IN  Asked(DistGet(P.grid, P.dist_tables[i], P.starts[i]))

\* The priority update without the else branch of lines 190-191.
MutUpdatePrioritiesNoReset(P, Q, priorities) ==
    [i \in 0..(P.N - 1) |->
        IF Q[i] # P.goals[i] THEN priorities[i] + GridSize(P.grid)
        ELSE priorities[i]]

\* Lines 446-452 of run, and lines 187-191 of MAPDSimulation.tick: plus one
\* for an agent off its goal, the fractional part for an agent on it.
UpdatePriorities(P, Q, priorities) ==
    [i \in 0..(P.N - 1) |->
        IF Q[i] # P.goals[i] THEN priorities[i] + GridSize(P.grid)
        ELSE priorities[i] % GridSize(P.grid)]

\* ------------------------------------------------ the planner and its callers

\* Calls of step by an outside caller in one behaviour, calls of update_goal
\* by an outside caller in one behaviour, largest max_timestep given to run.
MaxStep == 2
MaxGoalUpdates == 1
MaxT == 2

\* The planner configurations (seed, op_len, max_revisits) explored.
Setups ==
    {[seed |-> 0, op_len |-> 2, max_revisits |-> 0],
     [seed |-> 1, op_len |-> 2, max_revisits |-> 1],
     [seed |-> 2, op_len |-> 2, max_revisits |-> 2]}

\* Two more, with a horizon of one action and of three.
Horizons ==
    {[seed |-> 3, op_len |-> 1, max_revisits |-> 1],
     [seed |-> 4, op_len |-> 3, max_revisits |-> 2]}

\* The instances explored: a corridor, a bend, a grid cut in two, each with
\* two agents, and a longer corridor with three.
Corridor == [grid |-> get_grid(1, 3, {}), N |-> 2]
Bend == [grid |-> get_grid(2, 2, {<<1, 1>>}), N |-> 2]
Split == [grid |-> get_grid(1, 4, {<<0, 2>>}), N |-> 2]
Crowd == [grid |-> get_grid(1, 4, {}), N |-> 3]

\* A horizon of three actions for the outside caller: the shortest at which
\* an inherited operation can begin with a rotation and be infeasible.
LongSetup == [seed |-> 1, op_len |-> 3, max_revisits |-> 2]

\* What run is started on, and what an outside caller constructs.
RunScenarios ==
    ({Corridor, Bend, Split} \X Setups)
    \cup ({Crowd} \X {c \in Setups : c.max_revisits = 2})
    \cup ({Corridor} \X Horizons)
ApiScenarios ==
    ({Corridor, Bend, Split} \X {c \in Setups : c.max_revisits > 0})
    \cup ({Split} \X {LongSetup})

\* Joint configurations of n agents on pairwise-distinct traversable cells.
Configs(g, n) ==
    {Q \in [0..(n - 1) -> g.free] : \A i, j \in 0..(n - 1) : i # j => Q[i] # Q[j]}

\* Priority vectors an outside caller hands to step: every order of the
\* agents, ties included, with 0 as the least priority.
PrioVectors(n) == {pr \in [0..(n - 1) -> 0..(n - 1)] : \E i \in 0..(n - 1) : pr[i] = 0}

VARIABLES
    pibt,          \* the PIBT object
    mode,          \* who drives the planner: "run" (PIBT.run) or "api" (a caller of step)
    pc,            \* "new", "running" (inside run's loop), "returned", "called" (after a step call), "goal"
    configs,       \* the list of joint configurations: starts, then every step's output
    priorities,    \* the caller's priority list (run's local priorities)
    max_timestep,  \* run's argument
    Q_in,          \* the Q_from of the last step call
    pre,           \* orientations and inherited_ops as the last step call found them
    calls,         \* invocations of _epibt_select in the last step call
    flow,          \* every step so far was fed the configuration before it
    goal_updates,  \* calls of update_goal by the outside caller so far
    oracle,        \* a DistTable on its own: its grid, goal, queue and table
    target,        \* the cell of the last DistTable.get on it
    ret,           \* what that call returned (-1 before the first call)
    cat,           \* a run of _generate_operations: op_len, the index of the next
                   \* tuple of the product, the result list, and "loop" or "done"
    iters,         \* passes of run's while loop completed
    sel,           \* the invocations of _epibt_select in the last step call, its
                   \* recursive calls, and the priorities it was given
    val,           \* a call of is_valid_mapf_solution: its arguments, "new" or
                   \* "done", and what it returned
    rank,          \* a call of _get_sorted_candidates: the planner's grid, goal and
                   \* catalog, the agent's cell and orientation, "new" or "done",
                   \* and the ranked list and the oracle after the call
    prune,         \* a call of _compute_cell_path on an action sequence next to the
                   \* catalog of its length: the arguments, "new" or "done", and
                   \* what the call returned
    sim            \* the MAPDSimulation object, but for its planner, priorities and
                   \* current_config, which are pibt, priorities and the last of configs

plannerVars == <<pibt, mode, pc, configs, priorities, max_timestep, Q_in, pre, calls, flow,
                 goal_updates, iters, sel>>

\* No step call yet.
NoSel == [log |-> <<>>, pushes |-> <<>>, priorities |-> <<>>]
oracleVars == <<oracle, target, ret>>
vars == <<plannerVars, oracleVars, cat, sim, val, rank, prune>>

Agents == 0..(pibt.N - 1)

\* The oracle and the catalog run when the behaviour is not about them.
OracleIdle ==
    /\ oracle = [grid |-> get_grid(1, 1, {}), dt |-> DistTableInit(get_grid(1, 1, {}), <<0, 0>>)]
    /\ target = <<0, 0>>
    /\ ret = -1

CatIdle == cat = [op_len |-> 1, idx |-> 0, result |-> <<>>, pc |-> "done"]

\* No dispatcher when the behaviour is not about one.
SimIdle == sim = <<>>

\* No call of the validator when the behaviour is not about one.
ValIdle == val = <<>>

\* No call of the ranking, and none of the trajectory of a sequence, when
\* the behaviour is not about one.
RankIdle == rank = <<>>
PruneIdle == prune = <<>>

\* run is given any starts and any pairwise-distinct goals; the outside
\* caller constructs the planner as MAPDSimulation does, with the starts as
\* goals, and since it may pass any Q_from to step one choice of starts
\* stands for all.
Init ==
    /\ mode \in {"run", "api"}
    /\ \E sc \in (IF mode = "run" THEN RunScenarios ELSE ApiScenarios) :
         LET inst == sc[1]
             c == sc[2]
             all == Configs(inst.grid, inst.N)
         IN  \E starts \in (IF mode = "run" THEN all ELSE {CHOOSE Q \in all : TRUE}) :
               \E goals \in (IF mode = "run" THEN all ELSE {starts}) :
                  /\ pibt = PIBTInit(inst.grid, starts, goals, c.seed, c.op_len,
                                     c.max_revisits)
                  /\ configs = <<starts>>
                  /\ Q_in = starts
    /\ max_timestep \in IF mode = "run" THEN {MaxT} ELSE {0}
    /\ priorities = [i \in 0..(pibt.N - 1) |-> 0]
    /\ goal_updates = 0
    /\ iters = 0
    /\ OracleIdle
    /\ CatIdle
    /\ ValIdle
    /\ RankIdle
    /\ PruneIdle
    /\ SimIdle
    /\ pre = [orientations |-> pibt.orientations, inherited_ops |-> pibt.inherited_ops]
    /\ calls = 0
    /\ sel = NoSel
    /\ flow = TRUE
    /\ pc = "new"

\* The record of what a step call found.
Found == [orientations |-> pibt.orientations, inherited_ops |-> pibt.inherited_ops]

\* run, lines 436-441: the priorities and the list of configurations set up.
RunStart ==
    /\ mode = "run" /\ pc = "new"
    /\ \E r \in {RunPrioLoop(pibt, 0, <<>>)} :
         /\ pibt' = r.P
         /\ priorities' = r.priorities
    /\ pc' = "running"
    /\ UNCHANGED <<mode, configs, max_timestep, Q_in, pre, calls, sel, flow, goal_updates, iters,
                   oracleVars, cat, sim, val, rank, prune>>

\* run's loop without the break of line 453.
MutRunIterNoBreak ==
    /\ mode = "run" /\ pc = "running"
    /\ Len(configs) <= max_timestep
    /\ \E r \in {step(pibt, configs[Len(configs)], priorities)} :
         LET newprio == UpdatePriorities(pibt, r.Q_to, priorities) IN
         /\ pibt' = [r.P EXCEPT !.priorities = newprio]
         /\ configs' = Append(configs, r.Q_to)
         /\ priorities' = newprio
         /\ calls' = r.calls
         /\ sel' = r.sel
         /\ pc' = "running"
    /\ Q_in' = configs[Len(configs)]
    /\ pre' = Found
    /\ iters' = iters + 1
    /\ UNCHANGED <<mode, max_timestep, flow, goal_updates, oracleVars, cat, sim, val, rank, prune>>

\* run, lines 442-454: one iteration of the while loop.  The list handed to
\* step is the one run then updates, so the planner's _priorities follows it.
RunIter ==
    /\ mode = "run" /\ pc = "running"
    /\ Len(configs) <= max_timestep
    /\ \E r \in {step(pibt, configs[Len(configs)], priorities)} :
         LET newprio == UpdatePriorities(pibt, r.Q_to, priorities) IN
         /\ pibt' = [r.P EXCEPT !.priorities = newprio]
         /\ configs' = Append(configs, r.Q_to)
         /\ priorities' = newprio
         /\ calls' = r.calls
         /\ sel' = r.sel
         /\ pc' = IF \A i \in Agents : r.Q_to[i] = pibt.goals[i]
                  THEN "returned" ELSE "running"
    /\ Q_in' = configs[Len(configs)]
    /\ pre' = Found
    /\ iters' = iters + 1
    /\ UNCHANGED <<mode, max_timestep, flow, goal_updates, oracleVars, cat, sim, val, rank, prune>>

\* run, line 442 and 456: the loop ends on max_timestep.
RunReturn ==
    /\ mode = "run" /\ pc = "running"
    /\ ~(Len(configs) <= max_timestep)
    /\ pc' = "returned"
    /\ UNCHANGED <<pibt, mode, configs, priorities, max_timestep, Q_in, pre, calls, sel, flow,
                   goal_updates, iters, oracleVars, cat, sim, val, rank, prune>>

\* A caller invokes step with any joint configuration of distinct traversable
\* cells and any priorities.
StepCall ==
    /\ mode = "api"
    /\ Len(configs) <= MaxStep
    /\ \E Q \in Configs(pibt.grid, pibt.N), pr \in PrioVectors(pibt.N) :
         \E r \in {step(pibt, Q, pr)} :
            /\ pibt' = r.P
            /\ configs' = Append(configs, r.Q_to)
            /\ priorities' = pr
            /\ Q_in' = Q
            /\ calls' = r.calls
            /\ sel' = r.sel
            /\ flow' = (flow /\ Q = configs[Len(configs)])
    /\ pre' = Found
    /\ pc' = "called"
    /\ UNCHANGED <<mode, max_timestep, goal_updates, iters, oracleVars, cat, sim, val, rank, prune>>

\* A caller replaces one agent's goal.
UpdateGoal ==
    /\ mode = "api"
    /\ Len(configs) <= MaxStep
    /\ goal_updates < MaxGoalUpdates
    /\ \E i \in Agents, g \in pibt.grid.free :
         /\ g # pibt.goals[i]
         /\ pibt' = update_goal(pibt, i, g)
    /\ goal_updates' = goal_updates + 1
    /\ pc' = "goal"
    /\ UNCHANGED <<mode, configs, priorities, max_timestep, Q_in, pre, calls, sel, flow, iters,
                   oracleVars, cat, sim, val, rank, prune>>

Next == RunStart \/ RunIter \/ RunReturn \/ StepCall \/ UpdateGoal

Spec == Init /\ [][Next]_vars

\* ------------------------------------------------ a distance oracle on its own

\* The planner when the behaviour is not about it.
PlannerIdle ==
    /\ mode = "none"
    /\ pc = "new"
    /\ pibt = PIBTInit(get_grid(1, 1, {}), <<>>, <<>>, 0, 1, 0)
    /\ configs = <<>>
    /\ priorities = <<>>
    /\ max_timestep = 0
    /\ Q_in = <<>>
    /\ pre = <<>>
    /\ calls = 0
    /\ sel = NoSel
    /\ flow = TRUE
    /\ goal_updates = 0
    /\ iters = 0

\* The grids an oracle is built on: the 2 x 3 array with every set of obstacles.
OracleGrids == {get_grid(2, 3, obs) : obs \in SUBSET Cells(2, 3)}

\* The cells get is asked about: the array and the ring of cells around it.
QueryCells(g) == {<<y, x>> : y \in (-1)..g.H, x \in (-1)..g.W}

\* DistTable(grid, goal) for any grid and any in-bounds goal, traversable or not.
OracleInit ==
    /\ \E g \in OracleGrids, goal \in Cells(2, 3) :
         /\ oracle = [grid |-> g, dt |-> DistTableInit(g, goal)]
         /\ target = goal
    /\ ret = -1
    /\ PlannerIdle
    /\ CatIdle
    /\ ValIdle
    /\ RankIdle
    /\ PruneIdle
    /\ SimIdle

\* One call of DistTable.get, on any cell.
OracleGet ==
    /\ \E c \in QueryCells(oracle.grid) :
         \E r \in {DistGet(oracle.grid, oracle.dt, c)} :
            /\ oracle' = [oracle EXCEPT !.dt = r.dt]
            /\ target' = c
            /\ ret' = r.val
    /\ UNCHANGED <<plannerVars, cat, sim, val, rank, prune>>

SpecOracle == OracleInit /\ [][OracleGet]_vars

\* ------------------------------------------------ the catalog loop on its own

\* _generate_operations(op_len) about to start, for any horizon up to MaxOpLen.
CatInit ==
    /\ \E L \in 1..MaxOpLen : cat = [op_len |-> L, idx |-> 0, result |-> <<>>, pc |-> "loop"]
    /\ PlannerIdle
    /\ OracleIdle
    /\ SimIdle
    /\ ValIdle
    /\ RankIdle
    /\ PruneIdle

\* One pass of the loop over the product, lines 44-87; the loop ends behind
\* the last tuple.
CatStep ==
    /\ cat.pc = "loop"
    /\ LET op == ProductAt(cat.op_len, cat.idx) IN
       cat' = [cat EXCEPT !.result = IF KeepOp(op) THEN Append(@, op) ELSE @,
                          !.idx = @ + 1,
                          !.pc = IF cat.idx + 1 = Pow4(cat.op_len) THEN "done" ELSE "loop"]
    /\ UNCHANGED <<plannerVars, oracleVars, sim, val, rank, prune>>

SpecCatalog == CatInit /\ [][CatStep]_vars

\* ------------------------------------------------ run on its own

\* The seeds whose first two draws give the sixteen pairs of initial
\* orientations of two agents; the first four give the four initial
\* orientations of one agent.
PairSeeds == {0, 1, 2, 3, 11, 12, 13, 14, 23, 24, 25, 26, 34, 35, 36, 37}
SoloSeeds == {0, 1, 2, 3, 4, 5, 6, 7}

\* run on the two-agent instances, for every starts, goals and max_timestep
\* up to MaxT.
PlainJobs ==
    UNION {{[grid |-> sc[1].grid, starts |-> s, goals |-> g, seed |-> sc[2].seed,
             op_len |-> sc[2].op_len, max_revisits |-> sc[2].max_revisits,
             max_timestep |-> T] :
               s \in Configs(sc[1].grid, sc[1].N), g \in Configs(sc[1].grid, sc[1].N),
               T \in 0..MaxT} :
           sc \in {Corridor, Bend, Split} \X Setups}

\* The head-on swap in the corridor of five cells, with the constructor's
\* default max_revisits.
SwapJobs ==
    {[grid |-> get_grid(1, 5, {}),
      starts |-> [i \in 0..1 |-> IF i = 0 THEN <<0, 0>> ELSE <<0, 4>>],
      goals |-> [i \in 0..1 |-> IF i = 0 THEN <<0, 4>> ELSE <<0, 0>>],
      seed |-> s, op_len |-> 3, max_revisits |-> 10, max_timestep |-> 10] :
        s \in PairSeeds}

\* One agent around the obstacle in the middle of the 3 x 3 grid, with the
\* constructor's defaults.
DetourJobs ==
    {[grid |-> get_grid(3, 3, {<<1, 1>>}),
      starts |-> [i \in 0..0 |-> <<0, 0>>],
      goals |-> [i \in 0..0 |-> <<2, 2>>],
      seed |-> s, op_len |-> 3, max_revisits |-> 10, max_timestep |-> 10] :
        s \in SoloSeeds}

RunJobs == PlainJobs \cup SwapJobs \cup DetourJobs

\* PIBT(...) constructed and run(max_timestep) about to be called.
InitRun ==
    /\ mode = "run"
    /\ \E job \in RunJobs :
         /\ pibt = PIBTInit(job.grid, job.starts, job.goals, job.seed, job.op_len,
                            job.max_revisits)
         /\ configs = <<job.starts>>
         /\ Q_in = job.starts
         /\ max_timestep = job.max_timestep
    /\ priorities = [i \in 0..(pibt.N - 1) |-> 0]
    /\ goal_updates = 0
    /\ iters = 0
    /\ OracleIdle
    /\ CatIdle
    /\ ValIdle
    /\ RankIdle
    /\ PruneIdle
    /\ SimIdle
    /\ pre = [orientations |-> pibt.orientations, inherited_ops |-> pibt.inherited_ops]
    /\ calls = 0
    /\ sel = NoSel
    /\ flow = TRUE
    /\ pc = "new"

NextRun == RunStart \/ RunIter \/ RunReturn

\* run has not returned.
InRun == mode = "run" /\ pc \in {"new", "running"}

\* What every step of run does to its position: the set-up is left, a pass
\* of the loop is completed, or run returns.
RunAdvance ==
    /\ InRun
    /\ pc' \in {"running", "returned"}
    /\ iters' \in {iters, iters + 1}

\* run is one sequential loop and every call of step returns, so a call of
\* run that has not returned keeps advancing.  Under [][NextRun]_vars the
\* steps of RunAdvance that change <<pc, iters>> are the steps of NextRun,
\* and RunAdvance is enabled where NextRun is.
SpecRun == InitRun /\ [][NextRun]_vars /\ WF_<<pc, iters>>(RunAdvance)

\* ------------------------------------------------ simulation: the dispatcher

\* An optional field: None, or the value set.
None == <<>>
Some(v) == <<v>>

\* list.remove: the list without the first element equal to x.
RECURSIVE RemoveFirst(_, _)
RemoveFirst(xs, x) ==
    IF xs = <<>> THEN <<>>
    ELSE IF Head(xs) = x THEN Tail(xs)
    ELSE <<Head(xs)>> \o RemoveFirst(Tail(xs), x)

\* Task(task_id, pickup, delivery, created_at).  The Task objects are kept
\* in the list tasks in the order of their creation, the one with task_id k
\* at place k + 1; pending_tasks, active_tasks, completed_tasks and
\* current_task refer to an object by its task_id.
Task(task_id, pickup, delivery, created_at) ==
    [task_id |-> task_id, pickup |-> pickup, delivery |-> delivery,
     created_at |-> created_at, assigned_to |-> None, picked_up_at |-> None,
     delivered_at |-> None]

\* AgentInfo(agent_id)
AgentInfo(agent_id) == [agent_id |-> agent_id, state |-> "IDLE", current_task |-> None]

\* MAPDSimulation.__init__, but for the planner, the priorities and the
\* current configuration.  assign is a record of the last assignment pass:
\* the pending list and the configuration it found and, per task it
\* considered, the idle agents then and the agent chosen.
SimInit(g, num_agents, pickup_locations, delivery_locations) ==
    [agents |-> [i \in 0..(num_agents - 1) |-> AgentInfo(i)],
     pickup_locations |-> pickup_locations,
     delivery_locations |-> delivery_locations,
     task_counter |-> 0,
     tasks |-> <<>>,
     pending_tasks |-> <<>>,
     active_tasks |-> <<>>,
     completed_tasks |-> <<>>,
     _pickup_dist_tables |-> [loc \in Range(pickup_locations) |-> DistTableInit(g, loc)],
     timestep |-> 0,
     assign |-> [pending |-> <<>>, config |-> <<>>, log |-> <<>>]]

\* _generate_tasks with task_counter incremented once per call instead of
\* once per task (line 111 moved out of the loop).
MutGenerateTasksCountsCalls(D, batch) ==
    [D EXCEPT !.tasks = @ \o [k \in 1..Len(batch) |->
                                Task(D.task_counter, batch[k][1], batch[k][2],
                                     D.timestep)],
              !.task_counter = @ + 1,
              !.pending_tasks = @ \o [k \in 1..Len(batch) |-> D.task_counter]]

\* _generate_tasks with the draws of the generator given: batch is the list
\* of the (pickup, delivery) pairs drawn, one per new task.
_generate_tasks(D, batch) ==
    [D EXCEPT !.tasks = @ \o [k \in 1..Len(batch) |->
                                Task(D.task_counter + k - 1, batch[k][1], batch[k][2],
                                     D.timestep)],
              !.task_counter = @ + Len(batch),
              !.pending_tasks = @ \o [k \in 1..Len(batch) |-> D.task_counter + k - 1]]

\* The loop of _check_arrivals without the update_goal of line 126.
RECURSIVE MutArrivalLoopKeepsGoal(_, _, _, _)
MutArrivalLoopKeepsGoal(D, P, Q, i) ==
    IF i >= Cardinality(DOMAIN D.agents) THEN [D |-> D, P |-> P]
    ELSE IF D.agents[i].current_task = None THEN MutArrivalLoopKeepsGoal(D, P, Q, i + 1)
    ELSE LET id == D.agents[i].current_task[1]
             task == D.tasks[id + 1]
         IN  IF D.agents[i].state = "MOVING_TO_PICKUP" /\ Q[i] = task.pickup
             THEN MutArrivalLoopKeepsGoal(
                      [D EXCEPT !.tasks[id + 1].picked_up_at = Some(D.timestep),
                                !.agents[i].state = "MOVING_TO_DELIVERY"],
                      P, Q, i + 1)
             ELSE IF D.agents[i].state = "MOVING_TO_DELIVERY" /\ Q[i] = task.delivery
             THEN MutArrivalLoopKeepsGoal(
                      [D EXCEPT !.tasks[id + 1].delivered_at = Some(D.timestep),
                                !.active_tasks = RemoveFirst(@, id),
                                !.completed_tasks = Append(@, id),
                                !.agents[i].state = "IDLE",
                                !.agents[i].current_task = None],
                      update_goal(P, i, Q[i]), Q, i + 1)
             ELSE MutArrivalLoopKeepsGoal(D, P, Q, i + 1)

\* The loop of _check_arrivals with the test pos == task.pickup of line 122
\* dropped: an agent moving to its pickup picks up wherever it stands.
RECURSIVE MutArrivalLoopPicksUpAnywhere(_, _, _, _)
MutArrivalLoopPicksUpAnywhere(D, P, Q, i) ==
    IF i >= Cardinality(DOMAIN D.agents) THEN [D |-> D, P |-> P]
    ELSE IF D.agents[i].current_task = None
    THEN MutArrivalLoopPicksUpAnywhere(D, P, Q, i + 1)
    ELSE LET id == D.agents[i].current_task[1]
             task == D.tasks[id + 1]
         IN  IF D.agents[i].state = "MOVING_TO_PICKUP"
             THEN MutArrivalLoopPicksUpAnywhere(
                      [D EXCEPT !.tasks[id + 1].picked_up_at = Some(D.timestep),
                                !.agents[i].state = "MOVING_TO_DELIVERY"],
                      update_goal(P, i, task.delivery), Q, i + 1)
             ELSE IF D.agents[i].state = "MOVING_TO_DELIVERY" /\ Q[i] = task.delivery
             THEN MutArrivalLoopPicksUpAnywhere(
                      [D EXCEPT !.tasks[id + 1].delivered_at = Some(D.timestep),
                                !.active_tasks = RemoveFirst(@, id),
                                !.completed_tasks = Append(@, id),
                                !.agents[i].state = "IDLE",
                                !.agents[i].current_task = None],
                      update_goal(P, i, Q[i]), Q, i + 1)
             ELSE MutArrivalLoopPicksUpAnywhere(D, P, Q, i + 1)

\* The loop of _check_arrivals, from agent i on.
RECURSIVE ArrivalLoop(_, _, _, _)
ArrivalLoop(D, P, Q, i) ==
    IF i >= Cardinality(DOMAIN D.agents) THEN [D |-> D, P |-> P]
    ELSE IF D.agents[i].current_task = None THEN ArrivalLoop(D, P, Q, i + 1)
    ELSE LET id == D.agents[i].current_task[1]
             task == D.tasks[id + 1]
         IN  IF D.agents[i].state = "MOVING_TO_PICKUP" /\ Q[i] = task.pickup
             THEN ArrivalLoop([D EXCEPT !.tasks[id + 1].picked_up_at = Some(D.timestep),
                                        !.agents[i].state = "MOVING_TO_DELIVERY"],
                              update_goal(P, i, task.delivery), Q, i + 1)
             ELSE IF D.agents[i].state = "MOVING_TO_DELIVERY" /\ Q[i] = task.delivery
             THEN ArrivalLoop([D EXCEPT !.tasks[id + 1].delivered_at = Some(D.timestep),
                                        !.active_tasks = RemoveFirst(@, id),
                                        !.completed_tasks = Append(@, id),
                                        !.agents[i].state = "IDLE",
                                        !.agents[i].current_task = None],
                              update_goal(P, i, Q[i]), Q, i + 1)
             ELSE ArrivalLoop(D, P, Q, i + 1)

\* _check_arrivals with a delivery that leaves the agent its task and state.
MutCheckArrivalsKeepsTask(D, P, Q) ==
    LET Kept(A) ==
            [D |-> [A.D EXCEPT !.agents = [i \in DOMAIN @ |->
                                              IF D.agents[i].state = "MOVING_TO_DELIVERY"
                                              THEN D.agents[i] ELSE @[i]]],
             P |-> A.P]
    IN  Kept(ArrivalLoop(D, P, Q, 0))

_check_arrivals(D, P, Q) == ArrivalLoop(D, P, Q, 0)

\* The idle agents in agent order, from agent i on.
RECURSIVE IdleFrom(_, _)
IdleFrom(agents, i) ==
    IF i >= Cardinality(DOMAIN agents) THEN <<>>
    ELSE (IF agents[i].state = "IDLE" THEN <<i>> ELSE <<>>) \o IdleFrom(agents, i + 1)

\* min(idle_agents, ...) replaced by the first idle agent.
MutMinLoopFirstIdle(g, dt, Q, idle, j, best, bestval) ==
    LET Asked(d) == [best |-> idle[1], val |-> d.val, dt |-> d.dt]
    IN  Asked(DistGet(g, dt, Q[idle[1]]))

\* min(idle_agents, key = the oracle's distance of the agent's cell): the
\* first agent of the least key, its key, and the oracle after the queries.
RECURSIVE MinLoop(_, _, _, _, _, _, _)
MinLoop(g, dt, Q, idle, j, best, bestval) ==
    IF j > Len(idle) THEN [best |-> best, val |-> bestval, dt |-> dt]
    ELSE LET Asked(d) ==
                 IF j = 1 \/ d.val < bestval
                 THEN MinLoop(g, d.dt, Q, idle, j + 1, idle[j], d.val)
                 ELSE MinLoop(g, d.dt, Q, idle, j + 1, best, bestval)
         IN  Asked(DistGet(g, dt, Q[idle[j]]))

\* The first loop of _assign_tasks from the k-th pending task on, and the
\* removal of the assigned tasks from pending_tasks behind it.
RECURSIVE RemoveAll(_, _)
RemoveAll(xs, gone) ==
    IF gone = <<>> THEN xs ELSE RemoveAll(RemoveFirst(xs, Head(gone)), Tail(gone))

\* The loop of _assign_tasks without idle_agents.remove(best) of line 167.
RECURSIVE MutAssignLoopKeepsIdle(_, _, _, _, _, _, _)
MutAssignLoopKeepsIdle(g, D, P, Q, k, idle_agents, assigned) ==
    IF k > Len(D.pending_tasks) \/ idle_agents = <<>>
    THEN [D |-> [D EXCEPT !.pending_tasks = RemoveAll(@, assigned)], P |-> P]
    ELSE LET id == D.pending_tasks[k]
             task == D.tasks[id + 1]
             Chosen(m) ==
                 LET seen == [task_id |-> id, idle |-> idle_agents,
                              chosen |-> IF m.val = UNREACHED THEN None ELSE Some(m.best)]
                     D1 == [D EXCEPT !._pickup_dist_tables[task.pickup] = m.dt,
                                     !.assign.log = Append(@, seen)]
                 IN  IF m.val = UNREACHED
                     THEN MutAssignLoopKeepsIdle(g, D1, P, Q, k + 1, idle_agents, assigned)
                     ELSE MutAssignLoopKeepsIdle(g,
                                     [D1 EXCEPT !.tasks[id + 1].assigned_to = Some(m.best),
                                                !.agents[m.best].state = "MOVING_TO_PICKUP",
                                                !.agents[m.best].current_task = Some(id),
                                                !.active_tasks = Append(@, id)],
                                     update_goal(P, m.best, task.pickup), Q, k + 1,
                                     idle_agents,
                                     Append(assigned, id))
         IN  Chosen(MinLoop(g, D._pickup_dist_tables[task.pickup], Q, idle_agents, 1, 0, 0))

RECURSIVE AssignLoop(_, _, _, _, _, _, _)
AssignLoop(g, D, P, Q, k, idle_agents, assigned) ==
    IF k > Len(D.pending_tasks) \/ idle_agents = <<>>
    THEN [D |-> [D EXCEPT !.pending_tasks = RemoveAll(@, assigned)], P |-> P]
    ELSE LET id == D.pending_tasks[k]
             task == D.tasks[id + 1]
             Chosen(m) ==
                 LET seen == [task_id |-> id, idle |-> idle_agents,
                              chosen |-> IF m.val = UNREACHED THEN None ELSE Some(m.best)]
                     D1 == [D EXCEPT !._pickup_dist_tables[task.pickup] = m.dt,
                                     !.assign.log = Append(@, seen)]
                 IN  IF m.val = UNREACHED
                     THEN AssignLoop(g, D1, P, Q, k + 1, idle_agents, assigned)
                     ELSE AssignLoop(g,
                                     [D1 EXCEPT !.tasks[id + 1].assigned_to = Some(m.best),
                                                !.agents[m.best].state = "MOVING_TO_PICKUP",
                                                !.agents[m.best].current_task = Some(id),
                                                !.active_tasks = Append(@, id)],
                                     update_goal(P, m.best, task.pickup), Q, k + 1,
                                     RemoveFirst(idle_agents, m.best),
                                     Append(assigned, id))
         IN  Chosen(MinLoop(g, D._pickup_dist_tables[task.pickup], Q, idle_agents, 1, 0, 0))

_assign_tasks(g, D, P, Q) ==
    AssignLoop(g, [D EXCEPT !.assign = [pending |-> D.pending_tasks, config |-> Q,
                                        log |-> <<>>]],
               P, Q, 1, IdleFrom(D.agents, 0), <<>>)

\* MAPDSimulation.tick on current_config Q and priorities prio, with the
\* draws of _generate_tasks given: the dispatcher and the planner after it,
\* the priorities handed to step and the configuration step returned.
tick(D, P, Q, prio, batch) ==
    LET Moved(A, newprio, r) ==
            [D |-> A.D, P |-> r.P, priorities |-> newprio, Q_to |-> r.Q_to,
             calls |-> r.calls, sel |-> r.sel]
        Aged(A, newprio) == Moved(A, newprio, step(A.P, Q, newprio))
        Assigned(A) == Aged(A, UpdatePriorities(A.P, Q, prio))
        Arrived(A) == Assigned(_assign_tasks(P.grid, A.D, A.P, Q))
    IN  Arrived(_check_arrivals(_generate_tasks([D EXCEPT !.timestep = @ + 1], batch),
                                P, Q))

\* Ticks in one behaviour, tasks one call of _generate_tasks draws, tasks
\* generated in one behaviour.
MaxTick == 8
MaxArrivals == 2
MaxTasks == 2

\* The dispatchers constructed: one agent in a lane between a pickup and a
\* delivery station, two agents in a hall between the two, and two agents
\* on a grid cut in two, with a pickup station in each part and the agents
\* in one.
Lane == [grid |-> get_grid(1, 3, {}), num_agents |-> 1,
         pickup_locations |-> <<<<0, 0>>>>, delivery_locations |-> <<<<0, 2>>>>]
Hall == [grid |-> get_grid(1, 5, {}), num_agents |-> 2,
         pickup_locations |-> <<<<0, 0>>>>, delivery_locations |-> <<<<0, 4>>>>]
Cut == [grid |-> get_grid(1, 6, {<<0, 2>>}), num_agents |-> 2,
        pickup_locations |-> <<<<0, 0>>, <<0, 5>>>>, delivery_locations |-> <<<<0, 1>>>>]
SimInstances == {Lane, Hall, Cut}
SimSeeds == {1, 3}

\* rng.choice(len(available), size = num_agents, replace = False): any
\* num_agents distinct cells that are traversable and no station, in any order.
StartChoices(inst) ==
    {Q \in Configs(inst.grid, inst.num_agents) :
        \A i \in DOMAIN Q :
            Q[i] \notin Range(inst.pickup_locations) \cup Range(inst.delivery_locations)}

\* What one call of _generate_tasks may draw: any number of tasks up to
\* MaxArrivals, as long as MaxTasks is not passed, each with any pickup and
\* any delivery station.
Batches(D) ==
    UNION {[1..n -> Range(D.pickup_locations) \X Range(D.delivery_locations)] :
             n \in 0..Min(MaxArrivals, MaxTasks - D.task_counter)}

\* MAPDSimulation(grid, num_agents, pickup_locations, delivery_locations,
\* seed = seed) constructed.
SimInitial ==
    /\ mode = "sim"
    /\ \E inst \in SimInstances, seed \in SimSeeds :
         \E starts \in StartChoices(inst) :
            /\ pibt = PIBTInit(inst.grid, starts, starts, seed, 3, 10)
            /\ sim = SimInit(inst.grid, inst.num_agents, inst.pickup_locations,
                             inst.delivery_locations)
            /\ configs = <<starts>>
            /\ Q_in = starts
    /\ priorities = [i \in 0..(pibt.N - 1) |-> 0]
    /\ max_timestep = 0
    /\ goal_updates = 0
    /\ iters = 0
    /\ OracleIdle
    /\ CatIdle
    /\ ValIdle
    /\ RankIdle
    /\ PruneIdle
    /\ pre = [orientations |-> pibt.orientations, inherited_ops |-> pibt.inherited_ops]
    /\ calls = 0
    /\ sel = NoSel
    /\ flow = TRUE
    /\ pc = "new"

\* One call of tick.
Tick ==
    /\ mode = "sim"
    /\ sim.timestep < MaxTick
    /\ \E batch \in Batches(sim) :
         \E r \in {tick(sim, pibt, configs[Len(configs)], priorities, batch)} :
            /\ sim' = r.D
            /\ pibt' = r.P
            /\ priorities' = r.priorities
            /\ configs' = Append(configs, r.Q_to)
            /\ calls' = r.calls
            /\ sel' = r.sel
    /\ Q_in' = configs[Len(configs)]
    /\ pre' = Found
    /\ pc' = "ticked"
    /\ UNCHANGED <<mode, max_timestep, flow, goal_updates, iters, oracleVars, cat, val, rank, prune>>

SpecSim == SimInitial /\ [][Tick]_vars

\* ------------------------------------------------ the constructor on its own

\* The longest list of starts, and of goals, handed to the constructor.
MaxAgents == 2

\* PIBT(grid, starts, goals, seed, op_len, max_revisits) for starts and
\* goals of any lengths, each up to MaxAgents: __init__ has no raise
\* statement and compares no lengths, so the planner is constructed.
InitCtor ==
    /\ mode = "ctor"
    /\ \E n \in 1..MaxAgents, m \in 0..MaxAgents, c \in Setups :
         \E starts \in Configs(Corridor.grid, n), goals \in [0..(m - 1) -> Corridor.grid.free] :
            /\ pibt = PIBTInit(Corridor.grid, starts, goals, c.seed, c.op_len,
                               c.max_revisits)
            /\ configs = <<starts>>
            /\ Q_in = starts
    /\ priorities = [i \in 0..(pibt.N - 1) |-> 0]
    /\ max_timestep = 0
    /\ goal_updates = 0
    /\ iters = 0
    /\ OracleIdle
    /\ CatIdle
    /\ ValIdle
    /\ RankIdle
    /\ PruneIdle
    /\ SimIdle
    /\ pre = [orientations |-> pibt.orientations, inherited_ops |-> pibt.inherited_ops]
    /\ calls = 0
    /\ sel = NoSel
    /\ flow = TRUE
    /\ pc = "new"

\* The first call of step on the planner constructed, with the starts as
\* Q_from.  With fewer goals than starts the ranking of the first agent
\* without a goal indexes dist_tables out of range (line 242) and the call
\* raises IndexError; goals beyond the last agent are never read.
CtorStep ==
    /\ mode = "ctor" /\ pc = "new"
    /\ IF \A i \in Agents : i \in DOMAIN pibt.goals
       THEN /\ \E r \in {step(pibt, configs[1], priorities)} :
                 /\ pibt' = r.P
                 /\ configs' = Append(configs, r.Q_to)
                 /\ calls' = r.calls
                 /\ sel' = r.sel
            /\ pre' = Found
            /\ pc' = "called"
       ELSE /\ pc' = "IndexError"
            /\ UNCHANGED <<pibt, configs, calls, sel, pre>>
    /\ UNCHANGED <<mode, priorities, max_timestep, Q_in, flow, goal_updates, iters,
                   oracleVars, cat, sim, val, rank, prune>>

SpecCtor == InitCtor /\ [][CtorStep]_vars

\* ------------------------------------------------ the dispatcher's constructor on its own

\* A lane of four cells whose last cell is an obstacle, one agent, and as
\* the one pickup and the one delivery station any cell of the array.
StationInstances ==
    {[grid |-> get_grid(1, 4, {<<0, 3>>}), num_agents |-> 1,
      pickup_locations |-> <<pk>>, delivery_locations |-> <<dl>>] :
        pk \in Cells(1, 4), dl \in Cells(1, 4)}

\* MAPDSimulation(grid, num_agents, pickup_locations, delivery_locations)
\* for any such stations: __init__ has no raise statement and looks at the
\* grid only to list the walkable cells (line 60), so the dispatcher is
\* constructed whatever the stations.
InitStation ==
    /\ mode = "sim"
    /\ \E inst \in StationInstances :
         \E starts \in StartChoices(inst) :
            /\ pibt = PIBTInit(inst.grid, starts, starts, 1, 3, 10)
            /\ sim = SimInit(inst.grid, inst.num_agents, inst.pickup_locations,
                             inst.delivery_locations)
            /\ configs = <<starts>>
            /\ Q_in = starts
    /\ priorities = [i \in 0..(pibt.N - 1) |-> 0]
    /\ max_timestep = 0
    /\ goal_updates = 0
    /\ iters = 0
    /\ OracleIdle
    /\ CatIdle
    /\ ValIdle
    /\ RankIdle
    /\ PruneIdle
    /\ pre = [orientations |-> pibt.orientations, inherited_ops |-> pibt.inherited_ops]
    /\ calls = 0
    /\ sel = NoSel
    /\ flow = TRUE
    /\ pc = "new"

SpecStation == InitStation /\ [][Tick]_vars

\* ------------------------------------------------ the validator on its own

\* The longest list of configurations handed to the validator.
MaxRows == 2

\* The grid of the call: a lane of three cells whose last cell is an obstacle.
ValGrid == get_grid(1, 3, {<<0, 2>>})

\* The lists of at most n cells of the array, indexed from 0 as in the code.
CellLists(n) == UNION {[0..(m - 1) -> Cells(ValGrid.H, ValGrid.W)] : m \in 0..n}

\* is_valid_mapf_solution(grid, starts, goals, solution) about to be called
\* on any lists of cells and any list of such lists: the function takes
\* what it is given, of whatever lengths.
ValInit ==
    /\ val \in [grid : {ValGrid},
                starts : CellLists(MaxAgents),
                goals : CellLists(MaxAgents),
                solution : UNION {[1..T -> CellLists(MaxAgents)] : T \in 0..MaxRows},
                pc : {"new"},
                result : {FALSE}]
    /\ PlannerIdle
    /\ OracleIdle
    /\ CatIdle
    /\ SimIdle
    /\ RankIdle
    /\ PruneIdle

\* The call returns.
ValCall ==
    /\ val.pc = "new"
    /\ val' = [val EXCEPT !.pc = "done",
                          !.result = is_valid_mapf_solution(val.grid, val.starts, val.goals,
                                                            val.solution)]
    /\ UNCHANGED <<plannerVars, oracleVars, cat, sim, rank, prune>>

SpecVal == ValInit /\ [][ValCall]_vars

\* ------------------------------------------------ the ranking on its own

\* The grids ranked on: a lane of two cells, a bend, and a lane cut in two,
\* where some terminals are not connected to the goal.
RankGrids == {get_grid(1, 2, {}), Bend.grid, Split.grid}

\* The longest horizon ranked, and the states of the generator.
MaxRankLen == 3
RankSeeds == {0, 1}

\* A planner's call of _get_sorted_candidates(agent_id, coord, orientation)
\* about to be made: its grid, its catalog for a horizon up to MaxRankLen,
\* the agent's goal and oracle, fresh or after a search up to some cell, any
\* traversable cell, any orientation.
RankInit ==
    /\ \E g \in RankGrids, L \in 1..MaxRankLen, r \in RankSeeds :
         \E goal \in g.free, coord \in g.free, warm \in g.free, o \in 0..3 :
            rank = [grid |-> g, op_len |-> L, goal |-> goal, coord |-> coord,
                    orientation |-> o, rng |-> r,
                    all_operations |-> _generate_operations(L),
                    dt |-> DistGet(g, DistTableInit(g, goal), warm).dt,
                    cands |-> <<>>, pc |-> "new"]
    /\ PlannerIdle
    /\ OracleIdle
    /\ CatIdle
    /\ SimIdle
    /\ ValIdle
    /\ PruneIdle

\* The call returns.
RankCall ==
    /\ rank.pc = "new"
    /\ \E r \in {_get_sorted_candidates(rank.grid, rank.all_operations, rank.dt, rank.rng,
                                         rank.coord, rank.orientation)} :
         rank' = [rank EXCEPT !.pc = "done", !.cands = r.cands, !.dt = r.dt, !.rng = r.rng]
    /\ UNCHANGED <<plannerVars, oracleVars, cat, sim, val, prune>>

SpecRank == RankInit /\ [][RankCall]_vars

\* ------------------------------------------------ trajectories and the catalog

\* The grids the trajectories are computed on: a corridor and a bend.
PruneGrids == {Corridor.grid, Bend.grid}

\* Any sequence of up to MaxOpLen actions over F, R, C, W, pruned or not,
\* any traversable cell and any orientation, next to the catalog
\* _generate_operations gives for the length of the sequence.
PruneInit ==
    /\ \E g \in PruneGrids, L \in 1..MaxOpLen :
         \E coord \in g.free, o \in 0..3, seq \in [1..L -> Range(Alphabet)] :
            prune = [grid |-> g, coord |-> coord, orientation |-> o, seq |-> seq,
                     all_operations |-> _generate_operations(L),
                     result |-> <<>>, catalog_paths |-> {}, pc |-> "new"]
    /\ PlannerIdle
    /\ OracleIdle
    /\ CatIdle
    /\ SimIdle
    /\ ValIdle
    /\ RankIdle

\* _compute_cell_path is called on the sequence and on every operation of
\* the catalog; catalog_paths are the cell-paths returned for the catalog.
PruneCall ==
    /\ prune.pc = "new"
    /\ prune' = [prune EXCEPT
                    !.pc = "done",
                    !.result = _compute_cell_path(prune.grid, prune.coord,
                                                  prune.orientation, prune.seq),
                    !.catalog_paths =
                        {r.path : r \in {q \in {_compute_cell_path(prune.grid, prune.coord,
                                                                  prune.orientation,
                                                                  prune.all_operations[j]) :
                                                    j \in 1..Len(prune.all_operations)} :
                                           q.ok}}]
    /\ UNCHANGED <<plannerVars, oracleVars, cat, sim, val, rank>>

SpecPrune == PruneInit /\ [][PruneCall]_vars

\* ------------------------------------------------ what the claims speak of

\* A step call has returned; its Q_from is Q_in and its Q_to is LastQ.
Stepped == Len(configs) > 1

LastQ == configs[Len(configs)]

\* Two cell-paths over subtimes 0..L meet in a vertex or cross on an edge.
PathsConflict(pa, pb) ==
    \/ \E t \in DOMAIN pa : pa[t] = pb[t]
    \/ \E t \in DOMAIN pa : t > 0 /\ pa[t] = pb[t - 1] /\ pa[t - 1] = pb[t]

\* The cell-path of the inherited operation a step call found for agent i.
FoundPath(i) ==
    _compute_cell_path(pibt.grid, Q_in[i], pre.orientations[i], pre.inherited_ops[i])

\* The last step call found every inherited operation feasible and the
\* inherited cell-paths pairwise free of conflicts.
FoundClean ==
    /\ \A i \in Agents : FoundPath(i).ok
    /\ \A i, j \in Agents : i # j => ~PathsConflict(FoundPath(i).path, FoundPath(j).path)

\* Cells one step apart on the 4-connected grid.
Adjacent4(a, b) == Abs(a[1] - b[1]) + Abs(a[2] - b[2]) = 1

\* C1 (as claimed): for every call of step, whatever Q_from of distinct
\* traversable cells it is given, Q_to has no two agents on one cell and no
\* two agents that exchanged their cells.
C1_AnyInputCollisionFree ==
    Stepped =>
        \A i, j \in Agents :
            i # j => /\ LastQ[i] # LastQ[j]
                     /\ ~(LastQ[i] = Q_in[j] /\ LastQ[j] = Q_in[i])

\* C3: for every call of step and every agent, Q_to[i] is Q_from[i] or a
\* traversable in-bounds cell 4-adjacent to it.
C3_MovesAreSteps ==
    Stepped =>
        \A i \in Agents :
            \/ LastQ[i] = Q_in[i]
            \/ /\ LastQ[i] \in pibt.grid.free
               /\ LastQ[i] \in Cells(pibt.grid.H, pibt.grid.W)
               /\ Adjacent4(LastQ[i], Q_in[i])

\* C4: every call of step returns one cell per agent after at most
\* N * max(1, max_revisits) invocations of _epibt_select.
C4_StepTotalAndBounded ==
    Stepped =>
        /\ DOMAIN LastQ = Agents
        /\ \A i \in Agents : LastQ[i] \in Cells(pibt.grid.H, pibt.grid.W)
        /\ calls <= pibt.N * (IF pibt.max_revisits > 1 THEN pibt.max_revisits ELSE 1)

\* C6 (as claimed): after every step, reserved[t][c] = i exactly when c is
\* entry t of agent i's committed cell-path, and every other entry is NIL.
C6_ReservedIsCommittedPaths ==
    Stepped =>
        \A t \in 0..pibt.op_len, c \in Cells(pibt.grid.H, pibt.grid.W) :
            /\ \A i \in Agents : (pibt.reserved[t][c] = i) <=> (pibt.agent_paths[i][t] = c)
            /\ (pibt.reserved[t][c] = pibt.N) <=> (\A i \in Agents : pibt.agent_paths[i][t] # c)

\* C7: when the step found every inherited operation feasible and the
\* inherited cell-paths pairwise conflict-free, the committed cell-paths are
\* pairwise free of vertex conflicts at every subtime and of edge conflicts
\* between consecutive subtimes.
C7_CommittedPathsConflictFree ==
    (Stepped /\ FoundClean) =>
        \A i, j \in Agents :
            i # j => ~PathsConflict(pibt.agent_paths[i], pibt.agent_paths[j])

\* C2: driven by its own outputs, with any goal updates in between, every
\* emitted configuration passes the validator's continuity, vertex and edge
\* checks against the one before it.
C2_FlowPassesValidator ==
    flow => \A t \in 1..Len(configs) :
               ValidStep(pibt.grid, pibt.N, configs[IF t > 1 THEN t - 1 ELSE 1], configs[t])

\* ------------------------------------------------ where the claims' cases happen

\* The agents the last step call moved.
MovedAgents == {i \in Agents : LastQ[i] # Q_in[i]}

\* C2's case: a stream of three configurations fed back to the planner, in
\* which the first step moved an agent and the second moved two at once.
C2_TwoMoveInFlow ==
    /\ flow
    /\ Len(configs) = 3
    /\ configs[1] # configs[2]
    /\ Cardinality(MovedAgents) >= 2

\* The cell ahead of agent i as the last step call found it.
CellAhead(i) ==
    <<Q_in[i][1] + DIRECTION_VECTORS(pre.orientations[i])[1],
      Q_in[i][2] + DIRECTION_VECTORS(pre.orientations[i])[2]>>

\* C3's case: an agent whose inherited operation was infeasible kept it,
\* its first action is F into a cell that is no traversable cell, and the
\* agent stayed.
C3_BlockedForward ==
    /\ Stepped
    /\ \E i \in Agents :
          /\ ~FoundPath(i).ok
          /\ pibt.agent_ops[i] = pre.inherited_ops[i]
          /\ pibt.agent_ops[i][1] = "F"
          /\ ~is_valid_coord(pibt.grid, CellAhead(i))
          /\ LastQ[i] = Q_in[i]

\* C4's case: a step in which an agent was asked to select more than once,
\* so that the step made more invocations than there are agents.
C4_Revisited ==
    /\ Stepped
    /\ calls > pibt.N
    /\ \E i \in Agents : pibt.visit_count[i] >= 2

\* C7's case: a step that found clean inherited paths, in which a push took
\* place and two agents committed paths that leave their cells.
C7_CleanPush ==
    /\ Stepped
    /\ FoundClean
    /\ calls > pibt.N
    /\ \E i, j \in Agents :
          /\ i # j
          /\ pibt.agent_paths[i][pibt.op_len] # Q_in[i]
          /\ pibt.agent_paths[j][pibt.op_len] # Q_in[j]

\* ------------------------------------------------ the distance oracle's claims

\* The traversable cells within k steps of the goal on the 4-connected grid.
RECURSIVE Ball(_, _, _)
Ball(g, goal, k) ==
    IF k = 0 THEN {goal} \cap g.free
    ELSE LET B == Ball(g, goal, k - 1)
         IN  B \cup {c \in g.free : \E b \in B : Adjacent4(b, c)}

\* c is a traversable in-bounds cell joined to the goal by traversable cells.
Connected(g, goal, c) == c \in Ball(g, goal, Cardinality(g.free))

\* The length of a shortest path from a connected cell c to the goal.
ShortestLen(g, goal, c) ==
    CHOOSE k \in 0..Cardinality(g.free) :
        /\ c \in Ball(g, goal, k)
        /\ \A m \in 0..(k - 1) : c \notin Ball(g, goal, m)

\* A get call has returned.
Queried == ret # -1

\* C8: for a traversable goal and any sequence of get calls, a returned
\* d < UNREACHED is the true 4-connected shortest-path length from the cell
\* to the goal, and UNREACHED is returned exactly for a cell out of bounds,
\* an obstacle, or a cell not connected to the goal.
C8_DistancesExact ==
    (Queried /\ oracle.dt.goal \in oracle.grid.free) =>
        /\ ret < UNREACHED => /\ Connected(oracle.grid, oracle.dt.goal, target)
                              /\ ret = ShortestLen(oracle.grid, oracle.dt.goal, target)
        /\ ret = UNREACHED <=> ~Connected(oracle.grid, oracle.dt.goal, target)

\* C8's case: a distance longer than any obstacle-free route of the array,
\* returned after the search had to go around obstacles.
C8_Detour ==
    /\ Queried
    /\ oracle.dt.goal \in oracle.grid.free
    /\ ret = 4

\* C9 (as claimed): get(goal) returns 0 whatever cell is given as goal, at
\* any point of the oracle's lifetime.
C9_GoalIsZero ==
    (Queried /\ target = oracle.dt.goal) => ret = 0

\* C9 (amended): get(goal) returns 0 at any point of the oracle's lifetime
\* when the goal is a traversable cell; for a goal on an obstacle it
\* returns UNREACHED.
C9_TraversableGoalIsZero ==
    (Queried /\ target = oracle.dt.goal) =>
        ret = IF oracle.dt.goal \in oracle.grid.free THEN 0 ELSE UNREACHED

\* C9's case: get(goal) on a traversable goal after the search has run.
C9_GoalAfterSearch ==
    /\ Queried
    /\ target = oracle.dt.goal
    /\ oracle.dt.goal \in oracle.grid.free
    /\ oracle.dt.queue # <<oracle.dt.goal>>
    /\ ret = 0

\* ------------------------------------------------ the catalog's claim

Rotations == {"R", "C"}

\* The maximal runs of rotations of op, as pairs of first and last position.
RotationRuns(op) ==
    {ab \in (1..Len(op)) \X (1..Len(op)) :
        /\ ab[1] <= ab[2]
        /\ \A i \in ab[1]..ab[2] : op[i] \in Rotations
        /\ (ab[1] = 1 \/ op[ab[1] - 1] \notin Rotations)
        /\ (ab[2] = Len(op) \/ op[ab[2] + 1] \notin Rotations)}

\* The least number of quarter-turns that make the net rotation of a run.
MinTurns(op, ab) ==
    LET net == Cardinality({i \in ab[1]..ab[2] : op[i] = "R"})
               - Cardinality({i \in ab[1]..ab[2] : op[i] = "C"})
    IN  Min(Abs(net) % 4, 4 - (Abs(net) % 4))

\* The three rules on a sequence of actions.
Canonical(op) ==
    /\ \A i \in 1..(Len(op) - 1) : {op[i], op[i + 1]} # Rotations
    /\ \A ab \in RotationRuns(op) : ab[2] - ab[1] + 1 = MinTurns(op, ab)
    /\ op[Len(op)] \notin Rotations

\* C10: _generate_operations(L) returns exactly the sequences of length L
\* over F, R, C, W that obey the three rules, each once; it is a function of
\* L only, and 28 operations for L = 3.
C10_CatalogIsCanonical ==
    cat.pc = "done" =>
        /\ Range(cat.result) = {op \in [1..cat.op_len -> Range(Alphabet)] : Canonical(op)}
        /\ \A i, j \in 1..Len(cat.result) : i # j => cat.result[i] # cat.result[j]
        /\ cat.result = _generate_operations(cat.op_len)
        /\ cat.op_len = 3 => Len(cat.result) = 28

\* C10's case: the loop has run through the whole product for L = 3.
C10_GoldenCount ==
    /\ cat.pc = "done"
    /\ cat.idx = Pow4(cat.op_len)
    /\ cat.op_len = 3
    /\ Len(cat.result) = 28


\* ------------------------------------------------ run

\* Every agent of joint configuration Q is on its goal.
AllOnGoal(Q) == \A i \in Agents : Q[i] = pibt.goals[i]

\* The list run holds: it starts with the starts, has at most
\* max_timestep + 1 elements, and an output with every agent on its goal is
\* its last element, with run returned.
RunShape ==
    /\ configs[1] = pibt.starts
    /\ Len(configs) <= max_timestep + 1
    /\ \A t \in 2..Len(configs) :
          AllOnGoal(configs[t]) => (t = Len(configs) /\ pc = "returned")
    /\ (pc = "returned" /\ Len(configs) - 1 < max_timestep) => AllOnGoal(LastQ)

\* C11: run(max_timestep) always terminates; the list it returns starts with
\* the starts and holds at most max_timestep + 1 configurations; run stops
\* right after the first step whose output has every agent on its goal, so
\* after fewer than max_timestep steps the last configuration is the goals.
C11_RunTerminatesInShape == [](RunShape) /\ <>(pc = "returned")

\* run returned early, after a single step that moved an agent.
C11_EarlyReturn ==
    /\ pc = "returned" /\ max_timestep >= 2 /\ Len(configs) = 2
    /\ configs[1] # configs[2]

\* The planner is the one of the head-on swap in the corridor of five cells.
SwapCase ==
    /\ pibt.grid = get_grid(1, 5, {})
    /\ pibt.N = 2 /\ pibt.op_len = 3
    /\ pibt.starts[0] = <<0, 0>> /\ pibt.starts[1] = <<0, 4>>
    /\ pibt.goals[0] = <<0, 4>> /\ pibt.goals[1] = <<0, 0>>

\* No agent pair of the list exchanged cells in one step.
NoSwap ==
    \A t \in 1..(Len(configs) - 1) : \A i, j \in Agents :
        i # j => ~(configs[t + 1][i] = configs[t][j] /\ configs[t + 1][j] = configs[t][i])

\* C12 (as claimed): on the corridor swap, run(10) returns a plan whose last
\* configuration is the goals, without a swap collision, and the validator
\* accepts it.
C12_SwapSolved ==
    (SwapCase /\ pc = "returned") =>
        /\ Len(configs) - 1 <= 10
        /\ AllOnGoal(LastQ)
        /\ NoSwap
        /\ validate_mapf_solution(pibt.grid, pibt.starts, pibt.goals, configs) = "ok"

\* C12 (amended): on the corridor swap, whatever the initial orientations,
\* agent 0 stays to the left of agent 1 in every configuration and no step
\* has a swap; so run(10) executes all 10 steps, its last configuration is
\* not the goals, and the validator rejects the plan on its goals check, its
\* only failing check.
C12_SwapNeverSolved ==
    SwapCase =>
        /\ \A t \in 1..Len(configs) : configs[t][0][2] < configs[t][1][2]
        /\ NoSwap
        /\ pc = "returned" =>
              /\ Len(configs) = 11
              /\ ~AllOnGoal(LastQ)
              /\ validate_mapf_solution(pibt.grid, pibt.starts, pibt.goals, configs)
                    = "invalid solution, check goals"
              /\ \A t \in 1..(Len(configs) - 1) :
                    ValidStep(pibt.grid, pibt.N, configs[t], configs[t + 1])

\* The corridor swap returned with the two agents face to face.
C12_SwapBlocked ==
    /\ SwapCase /\ pc = "returned"
    /\ Adjacent4(LastQ[0], LastQ[1])
    /\ configs[1] # LastQ

\* The planner is the one of the single agent sent around the obstacle in
\* the middle of the 3 x 3 grid.
DetourCase ==
    /\ pibt.grid = get_grid(3, 3, {<<1, 1>>})
    /\ pibt.N = 1
    /\ pibt.starts[0] = <<0, 0>> /\ pibt.goals[0] = <<2, 2>>

\* Quarter turns between two orientations.
QuarterTurns(a, b) == Min((b - a) % 4, (a - b) % 4)

\* The least number of quarter turns on a shortest route of the detour, E E
\* S S or S S E E, from initial orientation o: those to face the first leg,
\* and one at the corner.
DetourTurns(o) == Min(QuarterTurns(o, 1), QuarterTurns(o, 2)) + 1

\* C13 (as claimed): on the detour the oracle distance of the start is 4,
\* and from each of the four initial orientations o run reaches the goal
\* after exactly 4 + DetourTurns(o) steps.
C13_DetourLength ==
    \A o \in 0..3 :
        (DetourCase /\ pc = "new" /\ pibt.orientations[0] = o)
          ~> (/\ pc = "returned"
              /\ DistGet(pibt.grid, DistTableInit(pibt.grid, pibt.goals[0]),
                         pibt.starts[0]).val = 4
              /\ AllOnGoal(LastQ)
              /\ Len(configs) - 1 = 4 + DetourTurns(o))

\* ------------------------------------------------ an unreachable goal

\* The state is the one a step call left.
JustStepped == Stepped /\ pc \in {"called", "running", "returned"}

\* Agent i's goal cannot be reached from the cell the last step call found
\* it on, and it came to the call with the inherited operation all-W.
Stranded(i) ==
    /\ ~Connected(pibt.grid, pibt.goals[i], Q_in[i])
    /\ pre.inherited_ops[i] = WaitOp(pibt.op_len)

\* C14: an agent whose goal is unreachable and whose inherited operation is
\* all-W is left on its cell by every step, whatever the other agents do,
\* and leaves the step with its inherited operation all-W again, so it
\* stays for as long as its goal does.
C14_StrandedStays ==
    JustStepped =>
        \A i \in Agents :
            Stranded(i) => (LastQ[i] = Q_in[i]
                            /\ pibt.inherited_ops[i] = WaitOp(pibt.op_len))

\* A step in which a stranded agent was pushed by the other agent, which
\* can reach its own goal: the stranded agent has no candidate and pushes
\* nobody, so the push was on it.
C14_StrandedPushed ==
    /\ JustStepped
    /\ pibt.N = 2 /\ calls > pibt.N
    /\ \E i, j \in Agents : i # j /\ Stranded(i) /\ ~Stranded(j)

\* ------------------------------------------------ the dispatcher

\* The Task object with the given task_id.
TaskOf(id) == sim.tasks[id + 1]

SimAgents == DOMAIN sim.agents

\* C15: after construction and after every tick, an agent is IDLE exactly
\* when it has no current task, the planner's goal of an agent moving to
\* its pickup is the pickup of its task, and the goal of an agent moving to
\* its delivery is the delivery of its task.
C15_StateMatchesGoal ==
    mode = "sim" =>
        \A i \in SimAgents :
            LET a == sim.agents[i] IN
            /\ a.state \in {"IDLE", "MOVING_TO_PICKUP", "MOVING_TO_DELIVERY"}
            /\ (a.state = "IDLE") <=> (a.current_task = None)
            /\ a.state = "MOVING_TO_PICKUP" =>
                  pibt.goals[i] = TaskOf(a.current_task[1]).pickup
            /\ a.state = "MOVING_TO_DELIVERY" =>
                  pibt.goals[i] = TaskOf(a.current_task[1]).delivery

\* One agent carries its task to the delivery while another is on its way
\* to a pickup.
C15_BothLegs ==
    /\ mode = "sim"
    /\ \E i, j \in SimAgents :
          /\ sim.agents[i].state = "MOVING_TO_DELIVERY"
          /\ sim.agents[j].state = "MOVING_TO_PICKUP"

\* C16: in every state of the dispatcher no task is the current task of two
\* agents, no agent is bound to two undelivered tasks, a task bound and
\* undelivered is the current task of its agent, and the timestamps of a
\* task are set in the order assigned_to, picked_up_at, delivered_at with
\* created_at <= picked_up_at <= delivered_at.
C16_BindingAndTimestamps ==
    mode = "sim" =>
        /\ \A id \in 0..(Len(sim.tasks) - 1) :
              LET T == TaskOf(id) IN
              /\ T.task_id = id
              /\ Cardinality({i \in SimAgents : sim.agents[i].current_task = Some(id)}) <= 1
              /\ \A i \in SimAgents :
                    sim.agents[i].current_task = Some(id) => T.assigned_to = Some(i)
              /\ (T.assigned_to # None /\ T.delivered_at = None) =>
                    sim.agents[T.assigned_to[1]].current_task = Some(id)
              /\ T.picked_up_at # None =>
                    (T.assigned_to # None /\ T.created_at <= T.picked_up_at[1])
              /\ T.delivered_at # None =>
                    (T.picked_up_at # None /\ T.picked_up_at[1] <= T.delivered_at[1])
        /\ \A i \in SimAgents :
              Cardinality({id \in 0..(Len(sim.tasks) - 1) :
                             /\ TaskOf(id).assigned_to = Some(i)
                             /\ TaskOf(id).delivered_at = None}) <= 1

\* A task was delivered while the other agent of the dispatcher holds one.
C16_DeliveredAndHeld ==
    /\ mode = "sim"
    /\ \E id \in 0..(Len(sim.tasks) - 1) : TaskOf(id).delivered_at # None
    /\ \E i \in SimAgents : sim.agents[i].current_task # None

\* What a tick does to completed_tasks: the list it found is a prefix of
\* the list it leaves, and the tasks on it keep every field.
CompletedKept ==
    mode = "sim" =>
        /\ Len(sim'.completed_tasks) >= Len(sim.completed_tasks)
        /\ \A k \in 1..Len(sim.completed_tasks) :
              /\ sim'.completed_tasks[k] = sim.completed_tasks[k]
              /\ sim'.tasks[sim.completed_tasks[k] + 1] = TaskOf(sim.completed_tasks[k])

\* C17: across the ticks completed_tasks only grows: a task on it stays on
\* it with its fields unchanged, and its length never decreases.
C17_CompletedOnlyGrows == [][CompletedKept]_vars

\* A tick was taken with a task already completed.
C17_TickAfterDelivery ==
    /\ mode = "sim"
    /\ Len(sim.completed_tasks) >= 1
    /\ sim.timestep > TaskOf(sim.completed_tasks[1]).delivered_at[1]

\* The distance of cell c from a pickup station, UNREACHED if there is no path.
TrueDist(g, from, c) ==
    IF Connected(g, from, c) THEN ShortestLen(g, from, c) ELSE UNREACHED

\* C18: in the last assignment pass the tasks considered are the pending
\* tasks in FIFO order, up to the end of the list or to the task that found
\* no agent idle; each is bound to an agent idle then, not bound earlier in
\* the pass, of the least distance from its pickup; a task whose idle
\* agents are all at distance UNREACHED stays in pending_tasks unbound, and
\* the tasks behind it are still considered.
C18_GreedyFifoAssignment ==
    (mode = "sim" /\ pc = "ticked") =>
        LET A == sim.assign
            Dist(k, a) == TrueDist(pibt.grid, TaskOf(A.pending[k]).pickup, A.config[a])
            Bound == {A.log[k].task_id : k \in {n \in 1..Len(A.log) : A.log[n].chosen # None}}
        IN  /\ Len(A.log) <= Len(A.pending)
            /\ \A k \in 1..Len(A.log) :
                  LET e == A.log[k] IN
                  /\ e.task_id = A.pending[k]
                  /\ e.idle # <<>>
                  /\ IF \A a \in Range(e.idle) : Dist(k, a) = UNREACHED
                     THEN /\ e.chosen = None
                          /\ TaskOf(e.task_id).assigned_to = None
                     ELSE /\ e.chosen # None
                          /\ e.chosen[1] \in Range(e.idle)
                          /\ \A a \in Range(e.idle) : Dist(k, e.chosen[1]) <= Dist(k, a)
                          /\ TaskOf(e.task_id).assigned_to = e.chosen
                  /\ k < Len(A.log) =>
                        A.log[k + 1].idle =
                            IF e.chosen = None THEN e.idle
                            ELSE SelectSeq(e.idle, LAMBDA a : a # e.chosen[1])
            /\ Len(A.log) < Len(A.pending) =>
                  IF A.log = <<>>
                  THEN \A i \in SimAgents : sim.agents[i].state # "IDLE"
                  ELSE /\ Len(A.log[Len(A.log)].idle) = 1
                       /\ A.log[Len(A.log)].chosen # None
            /\ sim.pending_tasks = SelectSeq(A.pending, LAMBDA id : id \notin Bound)

\* A pass skipped a task no idle agent could reach and bound the next one.
C18_SkippedThenBound ==
    /\ mode = "sim" /\ pc = "ticked"
    /\ \E k \in 1..(Len(sim.assign.log) - 1) :
          /\ sim.assign.log[k].chosen = None
          /\ sim.assign.log[k + 1].chosen # None
          /\ Len(sim.assign.log[k + 1].idle) = 2

\* Agent i was on its goal at the last priority update: tick tests the
\* configuration it hands to step, run the one step returned.
OnGoalAtUpdate(i) ==
    IF mode = "sim" THEN Q_in[i] = pibt.goals[i] ELSE LastQ[i] = pibt.goals[i]

\* The state is the one a priority update left.
Updated == (mode = "sim" /\ pc = "ticked") \/ (mode = "run" /\ iters > 0)

\* What a tick, or a pass of run's loop, does to the priorities, held as
\* numerators over grid.size: plus one for an agent off its goal, the
\* fractional part for an agent on it.
PriorityStep ==
    (Updated' /\ (IF mode = "sim" THEN sim'.timestep # sim.timestep ELSE iters' # iters)) =>
        \A i \in Agents :
            IF OnGoalAtUpdate(i)'
            THEN /\ priorities'[i] = priorities[i] % GridSize(pibt.grid)
                 /\ priorities'[i] < GridSize(pibt.grid)
            ELSE /\ priorities'[i] = priorities[i] + GridSize(pibt.grid)
                 /\ priorities'[i] > priorities[i]

\* C19: at every tick, and at every pass of run's loop, the priority of an
\* agent off its goal grows by exactly 1 and the priority of an agent on
\* its goal becomes its fractional part; so a priority is never negative,
\* is below 1 exactly for the agents on their goal at the last update, and
\* grows strictly while the agent stays off its goal.
C19_PriorityAging ==
    /\ [][PriorityStep]_vars
    /\ [](\A i \in Agents :
            /\ priorities[i] >= 0
            /\ Updated => (priorities[i] < GridSize(pibt.grid) <=> OnGoalAtUpdate(i)))

\* The agent that delivered a task is on its goal again, its priority
\* back at its fractional part after several ticks off the goal.
C19_ResetAfterDelivery ==
    /\ mode = "sim" /\ pc = "ticked"
    /\ Len(sim.completed_tasks) >= 1
    /\ \E i \in Agents :
          /\ TaskOf(sim.completed_tasks[1]).assigned_to = Some(i)
          /\ TaskOf(sim.completed_tasks[1]).delivered_at = Some(sim.timestep)
          /\ priorities[i] = 0

\* ------------------------------------------------ the constructor

\* C20 (as claimed): a planner given starts and goals of different lengths
\* is rejected with a configuration error at construction, so that none is
\* ever constructed, let alone stepped.
C20_MismatchRejected ==
    (mode = "ctor" /\ Cardinality(DOMAIN pibt.starts) # Cardinality(DOMAIN pibt.goals))
        => pc = "ConfigurationError"

\* ------------------------------------------------ the dispatcher's stations

\* The cells that are no traversable cell of the planner's grid.
Blocked(c) == ~is_valid_coord(pibt.grid, c)

\* C21 (as claimed): a dispatcher is never constructed with a pickup or a
\* delivery station on an obstacle cell, so no task carries a pickup or a
\* delivery that is not traversable.
C21_StationsTraversable ==
    /\ \A c \in Range(sim.pickup_locations) \cup Range(sim.delivery_locations) : ~Blocked(c)
    /\ \A k \in DOMAIN sim.tasks : ~Blocked(sim.tasks[k].pickup)
                                    /\ ~Blocked(sim.tasks[k].delivery)

\* ------------------------------------------------ the validator

\* The configurations of the call, and the agents of the t-th of them.
Rows == val.solution
RowAgents(t) == DOMAIN Rows[t]

\* Every agent of configuration t stays or moves to a traversable cell next
\* to the one it had in the configuration before.
Continuous(t) ==
    \A i \in RowAgents(t) :
        /\ i \in RowAgents(t - 1)
        /\ \/ Rows[t][i] = Rows[t - 1][i]
           \/ /\ Adjacent4(Rows[t][i], Rows[t - 1][i])
              /\ is_valid_coord(val.grid, Rows[t][i])

\* No two agents of configuration t on one cell, and none that exchanged
\* their cells since the configuration before.
CollisionFree(t) ==
    \A i, j \in RowAgents(t) :
        i < j => /\ Rows[t][i] # Rows[t][j]
                 /\ (t > 1 /\ {i, j} \subseteq RowAgents(t - 1)) =>
                        ~(Rows[t][i] = Rows[t - 1][j] /\ Rows[t][j] = Rows[t - 1][i])

\* C22 (as claimed): the call returns true exactly when the first
\* configuration equals starts, the last equals goals, every later
\* configuration is continuous with the one before, and no configuration
\* has a vertex collision or an edge swap.
C22_ValidatorExact ==
    val.pc = "done" =>
        (val.result <=> /\ Len(Rows) > 0
                        /\ Rows[1] = val.starts
                        /\ Rows[Len(Rows)] = val.goals
                        /\ \A t \in 2..Len(Rows) : Continuous(t)
                        /\ \A t \in 1..Len(Rows) : CollisionFree(t))

\* ------------------------------------------------ the recursive selection

\* The invocations of _epibt_select in the last step call, in the order of
\* their returns, those that returned failure, and those made from the
\* main loop of step.
Log == sel.log
Failed == {n \in DOMAIN Log : ~Log[n].ok}
TopLevel == {n \in DOMAIN Log : Log[n].stack = <<>>}

\* Every agent's committed (operation, cell-path) pair in a snapshot.
Committed(snap) == [i \in Agents |-> <<snap.agent_ops[i], snap.agent_paths[i]>>]

\* C23 (as claimed): whenever an invocation of _epibt_select returns
\* failure, the reservation table and every agent's committed (operation,
\* cell-path) pair, the invoked agent's own included, are what they were
\* immediately before the invocation.
C23_FailureRestoresAll ==
    \A n \in Failed :
        /\ Log[n].after.reserved = Log[n].before.reserved
        /\ Committed(Log[n].after) = Committed(Log[n].before)

\* The agents marked by hit in a snapshot.
Marked(snap) == {i \in Agents : snap.hit[i] = 1}

\* C24: no agent is on the active recursion stack of _epibt_select twice:
\* at every entry and every return of an invocation hit marks exactly the
\* agents whose invocation is active, the agent invoked is not among them,
\* and hit is 0 for every agent when step returns.
C24_HitMarksTheStack ==
    Stepped =>
        /\ \A n \in DOMAIN Log :
              /\ Marked(Log[n].before) = Range(Log[n].stack)
              /\ Marked(Log[n].after) = Range(Log[n].stack)
              /\ Log[n].k \notin Range(Log[n].stack)
              /\ Cardinality(Range(Log[n].stack)) = Len(Log[n].stack)
        /\ \A i \in Agents : pibt.hit[i] = 0

\* C24's case: a step in which a pushed agent pushed a third, so that two
\* invocations were active around the innermost one.
C24_ChainOfPushes ==
    /\ Stepped
    /\ \E n \in DOMAIN Log : Len(Log[n].stack) = 2

\* The largest visit count any agent has at the return of any invocation
\* of the last step call.
MostVisits(i) ==
    LET counts == {Log[n].after.visit_count[i] : n \in DOMAIN Log} \cup {pibt.visit_count[i]}
    IN  CHOOSE c \in counts : \A d \in counts : d <= c

\* C25 (as claimed): within a step no agent's visit count ever exceeds
\* max_revisits, for every max_revisits >= 0.
C25_VisitsWithinMaxRevisits ==
    Stepped => \A i \in Agents : MostVisits(i) <= pibt.max_revisits

\* C25: within a step no agent's visit count ever exceeds max_revisits or,
\* when max_revisits is 0, 1: the selection from the main loop of step is
\* made whatever max_revisits is.
C25_VisitsCapped ==
    Stepped =>
        \A i \in Agents :
            MostVisits(i) <= (IF pibt.max_revisits > 1 THEN pibt.max_revisits ELSE 1)

\* C25's case: a step in which an agent was pushed until its visit count
\* reached max_revisits = 2.
C25_CapReached ==
    /\ Stepped
    /\ pibt.max_revisits = 2
    /\ \E i \in Agents : MostVisits(i) = 2
    /\ \E n \in DOMAIN Log : Log[n].stack # <<>> /\ Log[n].after.visit_count[Log[n].k] = 2

\* The agent whose selection from the main loop of step an invocation
\* belongs to.
Root(n) == IF Log[n].stack = <<>> THEN Log[n].k ELSE Log[n].stack[1]

\* C26: every invocation of _epibt_select is handed the priority of the
\* agent selected from the main loop; an agent is pushed only when it is
\* the one agent in conflict with the candidate path and its priority is
\* strictly less than that; and once an agent's own selection from the main
\* loop has returned, no later invocation is made for it and its committed
\* operation stays as that selection left it.
C26_PushesOnlyDownward ==
    Stepped =>
        /\ \A n \in DOMAIN Log : Log[n].p = sel.priorities[Root(n)]
        /\ \A m \in DOMAIN sel.pushes :
              LET push == sel.pushes[m] IN
              /\ push.conflicts = {push.l}
              /\ sel.priorities[push.l] < push.p
              /\ \E n \in DOMAIN Log :
                    /\ Log[n].seq = push.seq
                    /\ Log[n].k = push.l
                    /\ Log[n].p = push.p
                    /\ Log[n].stack # <<>>
                    /\ Log[n].stack[Len(Log[n].stack)] = push.k
        /\ \A n \in TopLevel :
              /\ \A m \in DOMAIN Log :
                    m > n => /\ Log[m].k # Log[n].k
                             /\ Log[m].before.agent_ops[Log[n].k] = Log[n].after.agent_ops[Log[n].k]
                             /\ Log[m].after.agent_ops[Log[n].k] = Log[n].after.agent_ops[Log[n].k]
              /\ pibt.agent_ops[Log[n].k] = Log[n].after.agent_ops[Log[n].k]

\* C26's case: a step in which an agent selected a moving operation from
\* the main loop and a later agent then pushed a third one.
C26_PushAfterSelection ==
    /\ Stepped
    /\ \E n \in TopLevel, m \in DOMAIN sel.pushes :
          /\ Log[n].ok
          /\ Log[n].after.agent_ops[Log[n].k] # pre.inherited_ops[Log[n].k]
          /\ sel.pushes[m].seq > Log[n].seq
          /\ sel.pushes[m].k # Log[n].k
          /\ \A q \in DOMAIN Log : Log[q].seq > Log[n].seq => Root(q) # Log[n].k

\* The invocations made for agent i from the main loop, and through pushes.
TopOf(i) == {n \in TopLevel : Log[n].k = i}
NestedOf(i) == {n \in DOMAIN Log \ TopLevel : Log[n].k = i}

\* C27: within a step the selections from the main loop come in
\* non-increasing priority, equal priorities in increasing agent index; an
\* agent has one of them when its visit count is 0 at its turn, and none
\* when it was visited through a push before, whether that push succeeded
\* or was rolled back.
C27_MainLoopOrder ==
    Stepped =>
        /\ \A n, m \in TopLevel :
              n < m => \/ sel.priorities[Log[n].k] > sel.priorities[Log[m].k]
                       \/ /\ sel.priorities[Log[n].k] = sel.priorities[Log[m].k]
                          /\ Log[n].k < Log[m].k
        /\ \A i \in Agents :
              /\ Cardinality(TopOf(i)) <= 1
              /\ (TopOf(i) = {}) <=> (NestedOf(i) # {})
              /\ \A n \in TopOf(i) : Log[n].before.visit_count[i] = 0

\* C27's case: a step in which one agent was pushed and rolled back and so
\* got no selection of its own, while two agents of equal priority got
\* theirs.
C27_RolledBackAndSkipped ==
    /\ Stepped
    /\ \E i \in Agents :
          /\ NestedOf(i) # {}
          /\ \A n \in NestedOf(i) : ~Log[n].ok
          /\ TopOf(i) = {}
    /\ \E n, m \in TopLevel :
          n < m /\ sel.priorities[Log[n].k] = sel.priorities[Log[m].k]

\* ------------------------------------------------ the stay-in-place fallback

\* The last step call found agent i's inherited operation infeasible and
\* the agent ended the step on the stay-in-place path with that operation:
\* no new operation was selected for it.
StayFallback(i) ==
    /\ ~FoundPath(i).ok
    /\ pibt.agent_paths[i] = StayPath(Q_in[i], pibt.op_len)
    /\ pibt.agent_ops[i] = pre.inherited_ops[i]

\* C28 (as claimed): an agent whose inherited operation is infeasible at
\* the start of a step and which ends the step on the stay-in-place
\* fallback keeps its position and its orientation.
C28_FallbackEmitsWait ==
    Stepped =>
        \A i \in Agents :
            StayFallback(i) => /\ LastQ[i] = Q_in[i]
                               /\ pibt.orientations[i] = pre.orientations[i]

\* ------------------------------------------------ the inherited operation

\* A cell-path moved one subtime forward, its last cell repeated.
Shifted(path) ==
    [t \in DOMAIN path |-> IF t < pibt.op_len THEN path[t + 1] ELSE path[pibt.op_len]]

\* What the set-up of the next step call finds for agent i when it is
\* called with Q_from equal to the Q_to of the last one.
NextFound(i) ==
    _compute_cell_path(pibt.grid, LastQ[i], pibt.orientations[i], pibt.inherited_ops[i])

\* C29 (as claimed): after every step each inherited operation is the
\* committed operation without its first action and with a W appended; from
\* the step's Q_to every inherited operation is feasible, its cell-path is
\* the committed cell-path shifted by one subtime with the last cell
\* repeated, and Q_to[i] is entry 1 of agent i's committed cell-path.
C29_InheritedIsShiftedCommitted ==
    Stepped =>
        \A i \in Agents :
            /\ pibt.inherited_ops[i] = NextInherited(pibt.agent_ops[i])
            /\ NextFound(i).ok
            /\ NextFound(i).path = Shifted(pibt.agent_paths[i])
            /\ LastQ[i] = pibt.agent_paths[i][1]

\* ------------------------------------------------ agents on their goals

\* The last step call was made with every agent on its own goal (the goals
\* are those of the call: none has been replaced since).
AllOnGoals == Stepped /\ pc # "goal" /\ \A i \in Agents : Q_in[i] = pibt.goals[i]

\* C30 (as claimed): whatever the horizon, a step called with every agent
\* on its own goal returns Q_to = Q_from.
C30_OnGoalsStay == AllOnGoals => LastQ = Q_in

\* The last step call found every inherited operation all-wait.
AllWaiting == \A i \in Agents : pre.inherited_ops[i] = WaitOp(pibt.op_len)

\* What does hold of C30: with a horizon of at most three actions, a step
\* called with every agent on its own goal and every inherited operation
\* all-wait returns Q_to = Q_from.
C30_OnGoalsWaitingStay ==
    (AllOnGoals /\ AllWaiting /\ pibt.op_len <= 3) => LastQ = Q_in

\* A step with a horizon of three actions called with every agent on its
\* goal and every inherited operation all-wait has returned, and an agent
\* was given an operation other than the all-wait one.
C30_TurnsOnGoal ==
    /\ AllOnGoals
    /\ AllWaiting
    /\ pibt.op_len = 3
    /\ \E i \in Agents : pibt.agent_ops[i] # WaitOp(3)

\* ------------------------------------------------ the dispatcher's task lists

\* The task ids on a list, and a list without repetition.
Ids(xs) == {xs[k] : k \in 1..Len(xs)}
NoRepeat(xs) == \A j, k \in 1..Len(xs) : j # k => xs[j] # xs[k]

\* C31: in every state of the dispatcher every generated task is on exactly
\* one of pending_tasks, active_tasks and completed_tasks, so that
\* task_counter is the sum of their lengths; the task ids are
\* 0..task_counter-1 without repetition; and a task is active exactly when
\* it is the current task of the agent it is assigned to, which is then
\* not idle, each non-idle agent holding one active task.
C31_TaskListsPartition ==
    mode = "sim" =>
        /\ Len(sim.tasks) = sim.task_counter
        /\ \A k \in 1..Len(sim.tasks) : sim.tasks[k].task_id = k - 1
        /\ NoRepeat(sim.pending_tasks \o sim.active_tasks \o sim.completed_tasks)
        /\ Ids(sim.pending_tasks) \cup Ids(sim.active_tasks) \cup Ids(sim.completed_tasks)
              = 0..(sim.task_counter - 1)
        /\ sim.task_counter
              = Len(sim.pending_tasks) + Len(sim.active_tasks) + Len(sim.completed_tasks)
        /\ \A id \in 0..(sim.task_counter - 1) :
              id \in Ids(sim.active_tasks)
                  <=> \E i \in SimAgents : /\ sim.agents[i].current_task = Some(id)
                                            /\ TaskOf(id).assigned_to = Some(i)
        /\ \A i \in SimAgents :
              sim.agents[i].state # "IDLE"
                  <=> \E id \in Ids(sim.active_tasks) : sim.agents[i].current_task = Some(id)
        /\ Len(sim.active_tasks)
              = Cardinality({i \in SimAgents : sim.agents[i].state # "IDLE"})

\* Two tasks were generated; one is completed and the other is active.
C31_OneDoneOneHeld ==
    /\ mode = "sim"
    /\ sim.task_counter = 2
    /\ Len(sim.completed_tasks) = 1
    /\ Len(sim.active_tasks) = 1

\* A task waits in pending_tasks while every agent holds an active one.
C31_OneWaitsOneHeld ==
    /\ mode = "sim"
    /\ Len(sim.pending_tasks) = 1
    /\ Len(sim.active_tasks) = 1
    /\ \A i \in SimAgents : sim.agents[i].state # "IDLE"

\* ------------------------------------------------ the agents' job states

\* What one tick does to agent i: sim is the dispatcher and LastQ the
\* configuration at the start of the tick, sim' the dispatcher after it.
\* An idle agent stays idle or is bound to a task.
IdleStep(i) ==
    /\ sim'.agents[i].state \in {"IDLE", "MOVING_TO_PICKUP"}
    /\ sim'.agents[i].state = "MOVING_TO_PICKUP" =>
           /\ sim'.agents[i].current_task # None
           /\ sim'.agents[i].current_task[1] \notin Ids(sim.active_tasks)

\* An agent moving to its pickup picks up in this tick exactly when it
\* stands on the pickup at the start of the tick, and keeps its task.
PickupStep(i) ==
    LET id == sim.agents[i].current_task[1]
    IN  /\ sim'.agents[i].current_task = Some(id)
        /\ TaskOf(id).picked_up_at = None
        /\ IF LastQ[i] = TaskOf(id).pickup
           THEN /\ sim'.agents[i].state = "MOVING_TO_DELIVERY"
                /\ sim'.tasks[id + 1].picked_up_at = Some(sim'.timestep)
           ELSE /\ sim'.agents[i].state = "MOVING_TO_PICKUP"
                /\ sim'.tasks[id + 1].picked_up_at = None
        /\ sim'.tasks[id + 1].delivered_at = None

\* An agent moving to its delivery delivers in this tick exactly when it
\* stands on the delivery at the start of the tick: the task is stamped and
\* moved from active to completed, and the agent is idle, or bound to
\* another task by the assignment pass of the same tick.
DeliveryStep(i) ==
    LET id == sim.agents[i].current_task[1]
    IN  /\ sim'.tasks[id + 1].picked_up_at = TaskOf(id).picked_up_at
        /\ IF LastQ[i] = TaskOf(id).delivery
           THEN /\ sim'.agents[i].state \in {"IDLE", "MOVING_TO_PICKUP"}
                /\ sim'.agents[i].current_task # Some(id)
                /\ sim'.tasks[id + 1].delivered_at = Some(sim'.timestep)
                /\ TaskOf(id).picked_up_at[1] < sim'.timestep
                /\ id \in Ids(sim.active_tasks) \ Ids(sim'.active_tasks)
                /\ id \in Ids(sim'.completed_tasks) \ Ids(sim.completed_tasks)
           ELSE /\ sim'.agents[i] = sim.agents[i]
                /\ sim'.tasks[id + 1].delivered_at = None
                /\ id \in Ids(sim'.active_tasks)

JobStep ==
    (mode = "sim" /\ sim'.timestep = sim.timestep + 1) =>
        \A i \in SimAgents :
            CASE sim.agents[i].state = "IDLE" -> IdleStep(i)
              [] sim.agents[i].state = "MOVING_TO_PICKUP" -> PickupStep(i)
              [] sim.agents[i].state = "MOVING_TO_DELIVERY" -> DeliveryStep(i)

\* No task is delivered without having been picked up at an earlier tick.
PickedBeforeDelivered ==
    mode = "sim" =>
        \A k \in 1..Len(sim.tasks) :
            sim.tasks[k].delivered_at # None =>
                /\ sim.tasks[k].picked_up_at # None
                /\ sim.tasks[k].picked_up_at[1] < sim.tasks[k].delivered_at[1]

\* C32: the job state of an agent changes only along IDLE ->
\* MOVING_TO_PICKUP -> MOVING_TO_DELIVERY -> IDLE, with at most one
\* transition from a non-idle state per tick; the pickup happens in the
\* first tick at whose start the agent stands on the pickup and stamps
\* picked_up_at with that tick, the delivery in the first later tick at
\* whose start it stands on the delivery, stamping delivered_at and moving
\* the task from active to completed; no task is delivered without having
\* been picked up at a strictly earlier tick.
C32_JobStateCycle == [][JobStep]_vars /\ []PickedBeforeDelivered

\* An agent delivered a task and was bound to the next one in the same
\* tick: it completed one and is moving to the pickup of the other.
C32_DeliveredAndBoundAgain ==
    /\ mode = "sim"
    /\ \E i \in SimAgents, id \in Ids(sim.completed_tasks) :
          /\ TaskOf(id).assigned_to = Some(i)
          /\ TaskOf(id).delivered_at = Some(sim.timestep)
          /\ sim.agents[i].state = "MOVING_TO_PICKUP"

\* ------------------------------------------------ the ranked candidates

\* A call of the ranking has returned.
Ranked == rank # <<>> /\ rank.pc = "done"

\* The goal distance of the terminal of the k-th candidate of the list.
TerminalH(k) ==
    LET term == rank.cands[k].path[rank.op_len]
    IN  IF Connected(rank.grid, rank.goal, term)
        THEN ShortestLen(rank.grid, rank.goal, term)
        ELSE UNREACHED

\* The operations of the catalog that are feasible from the agent's cell
\* and orientation with the cell-path pa.
SamePath(pa) ==
    {j \in 1..Len(rank.all_operations) :
        LET r == _compute_cell_path(rank.grid, rank.coord, rank.orientation,
                                    rank.all_operations[j])
        IN  r.ok /\ r.path = pa}

Pruned == prune # <<>> /\ prune.pc = "done"

\* The sequence with its last action replaced by W.
EndingInWait(seq) == [j \in 1..Len(seq) |-> IF j = Len(seq) THEN "W" ELSE seq[j]]

\* C34: pruning loses no trajectory: the cell-path of every feasible
\* sequence of L actions over F, R, C, W is the cell-path of some operation
\* of the catalog of length L; and for a sequence that ends in R or C and
\* satisfies rules 1 and 2, the same sequence ending in W is in the catalog
\* and yields what the sequence yields.
C34_PruningLosesNoTrajectory ==
    Pruned =>
        /\ prune.result.ok => prune.result.path \in prune.catalog_paths
        /\ (prune.seq[Len(prune.seq)] \in {"R", "C"} /\ ~ScanBad(prune.seq, 1, 0, 0)) =>
              LET twin == EndingInWait(prune.seq)
                  r == _compute_cell_path(prune.grid, prune.coord, prune.orientation, twin)
              IN  /\ twin \in Range(prune.all_operations)
                  /\ r.ok = prune.result.ok
                  /\ r.path = prune.result.path

\* A sequence the pruning rejects by rule 2 that moves the agent: three
\* turns R and a step forward.
C34_ThreeTurnsAndAStep ==
    /\ Pruned
    /\ prune.seq = <<"R", "R", "R", "F">>
    /\ prune.seq \notin Range(prune.all_operations)
    /\ prune.result.ok
    /\ prune.result.path[4] # prune.coord

\* A feasible sequence that satisfies rules 1 and 2 and ends in a rotation
\* after a step forward.
C34_StepThenTurn ==
    /\ Pruned
    /\ prune.seq = <<"R", "R", "F", "C">>
    /\ prune.result.ok

====
